---- MODULE Spec2Model ----
(***************************************************************************)
(* Verification model of the r503 fingerprint-sensor driver.               *)
(*                                                                         *)
(*   - src/src/lib.rs        Package::build, Package::length,              *)
(*                           Package::checksum, Payload::len               *)
(*   - src/src/auto.rs       AutoEnroll (start, wait_*, oneshot)           *)
(*   - src/src/constants.rs  be_enum! enumerations                         *)
(*   - src/src/wire_traits.rs integer / array codecs                       *)
(*                                                                         *)
(* Bytes are naturals in 0..255, u16 values are kept modulo 2^16, and the  *)
(* serial transport is a pair of byte sequences (rx: bytes the device has  *)
(* sent and the driver has not read yet, tx: bytes the driver has written).*)
(***************************************************************************)
EXTENDS Integers, Sequences, FiniteSets, TLC

VARIABLES
    package,    \* lib.rs: the Package last returned by Package::build
    address,    \* auto.rs: AutoEnroll.address
    rx,         \* serial: bytes sent by the device, not yet read
    tx,         \* serial: bytes written by the driver
    link,       \* serial: "up", "closed" (reads hit EOF) or "broken" (I/O errors)
    pc,         \* position of the caller / of oneshot
    ret,        \* outcome of the last AutoEnroll call
    progress,   \* ghost: how many steps 0x01.. were accepted in order since start
    terminal,   \* ghost: a wait_* failed, or wait_storage_template returned Ok
    earlier     \* ghost: model_id bytes of the acknowledges accepted before the last

vars == <<package, address, rx, tx, link, pc, ret, progress, terminal, earlier>>

----------------------------------------------------------------------------
(* Integer helpers                                                         *)

U16 == 65536

\* lib.rs get_u16_as_u16_parts: [value >> 8, value & 0xFF]
get_u16_as_u16_parts(value) == <<value \div 256, value % 256>>

\* Least significant byte first
u16_to_le_bytes(v) == <<v % 256, (v \div 256) % 256>>

\* wire_traits.rs wire_ints!: u16::to_be_bytes / u32::to_be_bytes
u16_to_be_bytes(v) == <<(v \div 256) % 256, v % 256>>

\* A u32 is kept as the pair <<high 16 bits, low 16 bits>>.
u32_to_be_bytes(v) == u16_to_be_bytes(v[1]) \o u16_to_be_bytes(v[2])

\* wire_traits.rs wire_ints!: u16::from_be_bytes / u32::from_be_bytes
u16_from_be_bytes(b) == b[1] * 256 + b[2]

u32_from_be_bytes(b) == <<b[1] * 256 + b[2], b[3] * 256 + b[4]>>

RECURSIVE SumBytes(_)
SumBytes(s) ==
    IF s = <<>> THEN 0
    ELSE IF Len(s) = 1 THEN s[1]
    ELSE LET h == Len(s) \div 2 IN
         SumBytes(SubSeq(s, 1, h)) + SumBytes(SubSeq(s, h + 1, Len(s)))

----------------------------------------------------------------------------
(* lib.rs: the Package builder                                             *)

HEADER == 61185            \* 0xEF01
ADDRESS == <<65535, 65535>>    \* 0xFFFFFFFF

\* lib.rs Identifier (repr u8)
Identifier == [Command |-> 1, Data |-> 2, Acknowledge |-> 7, End |-> 8]

IdentifierNames == {"Command", "Data", "Acknowledge", "End"}

\* lib.rs Instruction (repr u8)
Instruction ==
    [GenImg |-> 1, GenChar |-> 2, Match |-> 3, Search |-> 4, RegModel |-> 5,
     Store |-> 6, LoadChar |-> 7, UpChar |-> 8, DownChar |-> 9, UpImage |-> 10,
     DownImage |-> 11, DeleteChar |-> 12, Empty |-> 13, SetSysPara |-> 14,
     ReadSysPara |-> 15, SetPwd |-> 18, VfyPwd |-> 19, GetRandomCode |-> 20,
     SetAdder |-> 21, ReadInfPage |-> 22, Control |-> 23, WriteNotepad |-> 24,
     ReadNotepad |-> 25, TempleteNum |-> 29, ReadIndexTable |-> 31,
     GetImageEx |-> 40, Cancel |-> 48, AutoEnroll |-> 49, AutoIdentify |-> 50,
     AuraLedConfig |-> 53, CheckSensor |-> 54, GetAlgVer |-> 57, GetFwVer |-> 58,
     ReadProdInfo |-> 60, SoftRst |-> 61, HandShake |-> 64]

InstructionNames == DOMAIN Instruction

\* size_of::<T>() of the in-memory types Payload::len measures
SizeOfInstruction == 1
SizeOfHeader == 2
SizeOfAddress == 4
SizeOfIdentifier == 1
SizeOfLength == 2
SizeOfSum == 2

\* lib.rs Payload::len: size_of of the variant's argument tuple
PayloadLen(payload) ==
    CASE payload.kind \in {"None", "ReadSysPara", "TempleteNum", "GenImg", "UpImage",
                           "DownImage", "RegModel", "Empty", "Match", "GetImageEx",
                           "Cancel", "HandShake", "CheckSensor", "GetAlgVer",
                           "GetFwVer", "ReadProdInfo", "SoftRst", "GetRandomCode",
                           "ReadInfPage"} -> 0
      [] payload.kind \in {"VfyPwd", "SetPwd", "SetAdder"} -> 4
      [] payload.kind \in {"SetSysPara", "Store", "LoadChar", "DeleteChar"} -> 2
      [] payload.kind \in {"ReadIndexTable", "Img2Tz", "GenChar", "UpChar",
                           "DownChar", "ReadNotepad"} -> 1
      [] payload.kind = "Search" -> 6
      [] payload.kind = "AuraLedConfig" -> 4
      [] payload.kind \in {"AutoEnroll", "AutoIdentify"} -> 5
      [] payload.kind = "WriteNotepad" -> 513

\* lib.rs Data::len
DataLen(contents) == SizeOfInstruction + PayloadLen(contents.payload)

\* lib.rs Default for Package
DefaultPackage ==
    [header |-> HEADER, address |-> ADDRESS, identifier |-> "Acknowledge",
     length |-> 12,
     contents |-> [instruction |-> "SoftRst",
                   payload |-> [kind |-> "None", args |-> <<>>]],
     checksum |-> 0]

\* lib.rs Package::length: the value it computes, before the assertion
length(p) ==
    (SizeOfHeader + SizeOfAddress + SizeOfIdentifier + SizeOfLength
        + DataLen(p.contents) + SizeOfSum) % U16

\* lib.rs Package::checksum: identifier and the two length bytes (contents: TODO)
checksum(p) ==
    Identifier[p.identifier] + get_u16_as_u16_parts(p.length)[1]
        + get_u16_as_u16_parts(p.length)[2]

\* lib.rs Package::build: Default, then length() (assert!(length <= 256)), then
\* checksum(). A failed assertion panics and no Package is returned.
build(identifier, instruction, payload) ==
    LET p0 == [DefaultPackage EXCEPT
                  !.identifier = identifier,
                  !.contents = [instruction |-> instruction, payload |-> payload]]
        l  == length(p0)
        p1 == [p0 EXCEPT !.length = l]
    IN  IF l <= 256
        THEN [p1 EXCEPT !.checksum = checksum(p1)]
        ELSE [panic |-> "assertion failed: length <= 256"]

Built(p) == "checksum" \in DOMAIN p

\* Payload values handed to Package::build: each variant with sample arguments,
\* args being the argument bytes in declaration order (multi-byte arguments
\* big-endian).
Payloads ==
    {[kind |-> k, args |-> <<>>] :
        k \in {"None", "ReadSysPara", "TempleteNum", "GenImg", "UpImage",
               "DownImage", "RegModel", "Empty", "Match", "GetImageEx", "Cancel",
               "HandShake", "CheckSensor", "GetAlgVer", "GetFwVer", "ReadProdInfo",
               "SoftRst", "GetRandomCode", "ReadInfPage"}}
    \cup {[kind |-> k, args |-> u32_to_be_bytes(v)] :
            k \in {"VfyPwd", "SetPwd", "SetAdder"}, v \in {<<0, 0>>, <<4660, 22136>>, ADDRESS}}
    \cup {[kind |-> "SetSysPara", args |-> <<n, c>>] : n \in {4, 5, 6}, c \in {1, 6}}
    \cup {[kind |-> k, args |-> <<b>>] :
            k \in {"ReadIndexTable", "ReadNotepad"}, b \in {0, 3}}
    \cup {[kind |-> k, args |-> <<b>>] :
            k \in {"Img2Tz", "GenChar", "UpChar", "DownChar"}, b \in {1, 6}}
    \cup {[kind |-> k, args |-> <<b, i>>] :
            k \in {"Store", "LoadChar", "DeleteChar"}, b \in {1, 6}, i \in {0, 3}}
    \cup {[kind |-> "Search", args |-> <<b>> \o u16_to_be_bytes(s) \o u16_to_be_bytes(n)] :
            b \in {1}, s \in {0, 258}, n \in {200}}
    \cup {[kind |-> "AuraLedConfig", args |-> <<1, s, 7, t>>] : s \in {0, 255}, t \in {0, 3}}
    \cup {[kind |-> "AutoEnroll", args |-> <<l, 0, 0, 1, 1>>] : l \in {0, 3}}
    \cup {[kind |-> "AutoIdentify", args |-> <<g, 0, 199, 255, 1>>] : g \in {1, 5}}
    \cup {[kind |-> "WriteNotepad", args |-> <<n>>] : n \in {0, 15}}

\* A caller of the public Package::build constructs a package
Build(identifier, instruction, payload) ==
    /\ package = DefaultPackage
    /\ package' = build(identifier, instruction, payload)
    /\ UNCHANGED <<address, rx, tx, link, pc, ret, progress, terminal, earlier>>

InitPkg ==
    /\ package = DefaultPackage
    /\ address = ADDRESS
    /\ rx = <<>>
    /\ tx = <<>>
    /\ link = "up"
    /\ pc = "pkg"
    /\ ret = [op |-> "none"]
    /\ progress = 0
    /\ terminal = FALSE
    /\ earlier = {}

NextPkg ==
    \E identifier \in IdentifierNames, instruction \in InstructionNames,
       payload \in Payloads :
        Build(identifier, instruction, payload)

SpecPkg == InitPkg /\ [][NextPkg]_vars

----------------------------------------------------------------------------
(* Claims on Package::build                                                *)

IsCommandPackage ==
    /\ Built(package)
    /\ package.identifier = "Command"

\* The sum the manual defines: identifier, length bytes and all package contents
SumOverIdLengthContents(p) ==
    (Identifier[p.identifier] + get_u16_as_u16_parts(p.length)[1]
        + get_u16_as_u16_parts(p.length)[2]
        + Instruction[p.contents.instruction]
        + SumBytes(p.contents.payload.args)) % U16

\* C1: the stored checksum of every command package built by Package::build is
\* (identifier + high and low byte of the length field + instruction byte + every
\* payload byte) mod 2^16, and TempleteNum without payload gives 0x0021, GenImg
\* 0x0005.
C1_ChecksumCoversContents ==
    IsCommandPackage =>
        /\ package.checksum = SumOverIdLengthContents(package)
        /\ (package.contents.instruction = "TempleteNum"
                /\ package.contents.payload.kind = "TempleteNum"
            => package.checksum = 33)
        /\ (package.contents.instruction = "GenImg"
                /\ package.contents.payload.kind = "GenImg"
            => package.checksum = 5)

\* C2: the length field of every command package built by Package::build is
\* 1 (instruction) + payload byte count + 2 (checksum); 0x0003 without payload.
C2_LengthCountsContentsAndSum ==
    IsCommandPackage =>
        /\ package.length = 1 + PayloadLen(package.contents.payload) + 2
        /\ (PayloadLen(package.contents.payload) = 0 => package.length = 3)

----------------------------------------------------------------------------
(* lib.rs: Driver                                                          *)

\* Payloads the builder methods of Driver pass to Package::build; every method
\* pairs Payload::X with Instruction::X
BuilderPayloads == {p \in Payloads : p.kind \in InstructionNames}

\* lib.rs Driver::vfy_pwd .. Driver::read_notepad
builder(payload) == build("Command", payload.kind, payload)

\* The Option<Address> values a Driver is configured with
DriverAddresses ==
    {[some |-> TRUE, val |-> a] : a \in {<<0, 0>>, <<0, 1>>, <<4660, 22136>>, ADDRESS}}
    \cup {[some |-> FALSE, val |-> <<>>]}

\* lib.rs Driver::new: self.packet.address
Driver_new(opt) == IF opt.some THEN opt.val ELSE ADDRESS

DriverNew(opt) ==
    /\ pc.at = "driver"
    /\ address' = Driver_new(opt)
    /\ ret' = [op |-> "new", val |-> opt]
    /\ pc' = [pc EXCEPT !.k = 1]
    /\ UNCHANGED <<package, rx, tx, link, progress, terminal, earlier>>

\* A caller calls one of the builder methods of a configured Driver
DriverBuild(payload) ==
    /\ pc.at = "driver"
    /\ pc.k = 1
    /\ package' = builder(payload)
    /\ ret' = [ret EXCEPT !.op = "build"]
    /\ UNCHANGED <<address, rx, tx, link, pc, progress, terminal, earlier>>

\* A Driver whose packet is a default Package
InitDriver ==
    /\ package = DefaultPackage
    /\ address = DefaultPackage.address
    /\ rx = <<>>
    /\ tx = <<>>
    /\ link = "up"
    /\ pc = [at |-> "driver", k |-> 0]
    /\ ret = [op |-> "none", val |-> [some |-> FALSE, val |-> <<>>]]
    /\ progress = 0
    /\ terminal = FALSE
    /\ earlier = {}

NextDriver ==
    \/ \E opt \in DriverAddresses : DriverNew(opt)
    \/ \E payload \in BuilderPayloads : DriverBuild(payload)

SpecDriver == InitDriver /\ [][NextDriver]_vars

\* C13: every command package a builder method returns after Driver::new has
\* the address the Driver was configured with (0xFFFFFFFF for None), the
\* header 0xEF01 and the identifier Command.
C13_BuildersCarryAddress ==
    ret.op = "build" /\ Built(package) =>
        /\ package.address = address
        /\ (ret.val.some => package.address = ret.val.val)
        /\ (~ret.val.some => package.address = ADDRESS)
        /\ package.header = HEADER
        /\ package.identifier = "Command"

----------------------------------------------------------------------------
(* constants.rs: be_enum! enumerations, variant -> wire integer            *)

\* A table that gives the AutoIdentify start the opcode of the AutoEnroll start
CommandsReused ==
    [GetImage |-> 1, GenChar |-> 2, RegModel |-> 5, UpChar |-> 8, UpImage |-> 10,
     GetRandomCode |-> 20, ReadSystemParameter |-> 15,
     AutomaticRegistrationTemplate |-> 49, AutomaticFingerprintVerification |-> 49,
     AuraControl |-> 53]

PackageIdentifier ==
    [CommandPacket |-> 1, DataPacket |-> 2, AcknowledgePacket |-> 7,
     EndOfDataPacket |-> 8]

Commands ==
    [GetImage |-> 1, GenChar |-> 2, RegModel |-> 5, UpChar |-> 8, UpImage |-> 10,
     GetRandomCode |-> 20, ReadSystemParameter |-> 15,
     AutomaticRegistrationTemplate |-> 49, AutomaticFingerprintVerification |-> 50,
     AuraControl |-> 53]

ConfirmationCode ==
    [SuccessCode |-> 0, ErrorCode |-> 1, NoFingerOnSensor |-> 2,
     FailToEnrollFinger |-> 3,
     FailToGenerateCharacterOverDisorderlyFingerprintImage |-> 6,
     FailToGenerateCharacterLacknessOfCharacterPointOrOverSmallness |-> 7,
     FailFingerDoesntMatch |-> 8, FailToFindMatchingFinger |-> 9,
     FailToCombineCharacterFiles |-> 10,
     AddressingPageIDIsBeyoundTheFingerLibary |-> 11,
     ErrorWhenReadingTemplateFromLibararORTemplateIsInvalid |-> 12,
     ErrorWhenUploadingTemplate |-> 13,
     ModuleCantReceivingTheFollowingDataPackages |-> 14,
     ErrorWhenUploadingImage |-> 15, FailToDeleteTheTemplate |-> 16,
     FailToClearFingerLibary |-> 17, WrongPassword |-> 19,
     FailToGenerateImageLacknessOfValidPrimaryImage |-> 21,
     ErrorWhenWritingFlash |-> 24, NoDefinitionError |-> 25,
     InvalidRegisterNumber |-> 26, IncorrectConfigurationOfRegister |-> 27,
     WrongNotepadPageNumber |-> 28, FailToOperateTheCommunicationPort |-> 29,
     FingerPrintLibaryFull |-> 31, AddressIncorrect |-> 32, MustVerifyPassword |-> 33,
     FingerTemplateEmpty |-> 34, FingerLibaryEmpty |-> 36, Timeout |-> 38,
     FingerAlreadyExists |-> 39, SensorHardwareError |-> 41,
     UnsupportedCommand |-> 252, HardwareError |-> 253,
     CommandExecutionFailure |-> 254, SystemReserved |-> 255]

AutoEnrollStep ==
    [CollectImage1 |-> 1, GenerateFeature1 |-> 2, CollectImage2 |-> 3,
     GenerateFeature2 |-> 4, CollectImage3 |-> 5, GenerateFeature3 |-> 6,
     CollectImage4 |-> 7, GenerateFeature4 |-> 8, CollectImage5 |-> 9,
     GenerateFeature5 |-> 10, CollectImage6 |-> 11, GenerateFeature6 |-> 12,
     Repeatfingerprint |-> 13, MergeFeature |-> 14, StorageTemplate |-> 15]

\* A TryFrom that maps an unlisted value to a variant instead of an error
try_from_lenient(enum, value) ==
    IF \E n \in DOMAIN enum : enum[n] = value
    THEN [ok |-> TRUE, v |-> CHOOSE n \in DOMAIN enum : enum[n] = value]
    ELSE [ok |-> TRUE, v |-> CHOOSE n \in DOMAIN enum : TRUE]

\* be_enum! TryFrom<$int_ty>: Ok(variant) for a listed value, Err(other) otherwise
try_from(enum, value) ==
    IF \E n \in DOMAIN enum : enum[n] = value
    THEN [ok |-> TRUE, v |-> CHOOSE n \in DOMAIN enum : enum[n] = value]
    ELSE [ok |-> FALSE, v |-> "Err"]

----------------------------------------------------------------------------
(* Frame layer: Checksum, Command::to_wire, Response::from_wire            *)

\* Checksum::update: wrapping 16-bit sum of the bytes
Checksum_update(cksm, bytes) == (cksm + SumBytes(bytes)) % U16

RECURSIVE Concat(_)
Concat(chunks) == IF chunks = <<>> THEN <<>> ELSE chunks[1] \o Concat(Tail(chunks))

\* Command::to_wire: the successive write_all calls of one command frame
Command_to_wire(addr, instruction, body) ==
    LET ident   == <<PackageIdentifier.CommandPacket>>
        len     == u16_to_be_bytes(1 + Len(body) + 2)
        covered == ident \o len \o <<instruction>> \o body
    IN  <<u16_to_be_bytes(HEADER), u32_to_be_bytes(addr), ident, len,
          <<instruction>>, body, u16_to_be_bytes(Checksum_update(0, covered))>>

\* A constructor that also accepts 0xC8
specific_inclusive(loc) ==
    IF loc >= 0 /\ loc <= 200 THEN [some |-> TRUE, val |-> loc]
    ELSE [some |-> FALSE, val |-> 0]

\* auto.rs AutoEnrollLocation::specific / automatic
specific(loc) ==
    IF loc >= 0 /\ loc < 200 THEN [some |-> TRUE, val |-> loc]
    ELSE [some |-> FALSE, val |-> 0]

automatic == [val |-> 200]

\* auto.rs Default for AutoEnrollConfig
DefaultAutoEnrollConfig ==
    [location |-> automatic, cover_id |-> FALSE, allow_dupes |-> FALSE,
     return_status |-> TRUE, require_release |-> TRUE]

bool_as_u8(b) == IF b THEN 1 ELSE 0

\* A to_wire that writes allow_dupes after return_status
AutoEnrollConfig_to_wire_reordered(cfg) ==
    <<cfg.location.val, bool_as_u8(cfg.cover_id), bool_as_u8(cfg.return_status),
      bool_as_u8(cfg.allow_dupes), bool_as_u8(cfg.require_release)>>

\* auto.rs ToWire for AutoEnrollConfig
AutoEnrollConfig_to_wire(cfg) ==
    <<cfg.location.val, bool_as_u8(cfg.cover_id), bool_as_u8(cfg.allow_dupes),
      bool_as_u8(cfg.return_status), bool_as_u8(cfg.require_release)>>

\* wire_traits.rs read_exact that cannot be served from the bytes at hand: the
\* bytes there are were taken; EOF and transport errors map to EndOfFile / Wire,
\* and on a live link the read is still waiting.
Starved(buf, lk) ==
    [res |-> IF lk = "closed" THEN "EndOfFile"
             ELSE IF lk = "broken" THEN "Wire" ELSE "Pending",
     used |-> Len(buf), val |-> 0]

AutoEnrollResponseSize == 3

\* Variant of AutoEnrollResponse::from_wire that decodes the step code as soon
\* as its byte is read, before the other two body bytes
AutoEnrollResponse_from_wire_step_first(buf) ==
    IF Len(buf) < 1 THEN [res |-> "short", used |-> Len(buf)]
    ELSE
    LET step == try_from(AutoEnrollStep, buf[1])
    IN  IF ~step.ok THEN [res |-> "IncorrectData", used |-> 1]
        ELSE IF Len(buf) < AutoEnrollResponseSize
        THEN [res |-> "short", used |-> Len(buf)]
        ELSE [res |-> "Ok", used |-> AutoEnrollResponseSize, step |-> step.v,
              model_id |-> buf[3]]

\* Variant of AutoEnrollResponse::from_wire that lets an unlisted step code
\* through as an unknown step
AutoEnrollResponse_from_wire_any_step(buf) ==
    IF Len(buf) < AutoEnrollResponseSize THEN [res |-> "short", used |-> Len(buf)]
    ELSE
    LET step == try_from(AutoEnrollStep, buf[1])
    IN  [res |-> "Ok", used |-> AutoEnrollResponseSize,
         step |-> IF step.ok THEN step.v ELSE "Unknown", model_id |-> buf[3]]

\* Variant of AutoEnrollResponse::from_wire that takes the second body byte to
\* be zero
AutoEnrollResponse_from_wire_zero_reserved(buf) ==
    IF Len(buf) < AutoEnrollResponseSize THEN [res |-> "short", used |-> Len(buf)]
    ELSE
    LET step == try_from(AutoEnrollStep, buf[1])
    IN  IF ~step.ok \/ buf[2] # 0
        THEN [res |-> "IncorrectData", used |-> AutoEnrollResponseSize]
        ELSE [res |-> "Ok", used |-> AutoEnrollResponseSize, step |-> step.v,
              model_id |-> buf[3]]

\* auto.rs FromWire for AutoEnrollResponse: <[u8; 3]>::from_wire, then the step
\* code is decoded. buf is what the serial still holds; short means the read of
\* the three bytes cannot be served.
AutoEnrollResponse_from_wire(buf) ==
    IF Len(buf) < AutoEnrollResponseSize THEN [res |-> "short", used |-> Len(buf)]
    ELSE
    LET step == try_from(AutoEnrollStep, buf[1])
    IN  IF ~step.ok
        THEN [res |-> "IncorrectData", used |-> AutoEnrollResponseSize]
        ELSE [res |-> "Ok", used |-> AutoEnrollResponseSize, step |-> step.v,
              model_id |-> buf[3]]

\* AutoIdentifyStep: the three phases in their order; the enum's codes are
\* taken to be the positions in that order
AutoIdentifyStep == [CollectImage |-> 1, GenerateFeature |-> 2, Search |-> 3]

AutoIdentifyResponseSize == 5

\* Variant decoder that takes the model id from the second body byte and the
\* score low byte first
AutoIdentifyResponse_from_wire_le(buf) ==
    IF Len(buf) < AutoIdentifyResponseSize THEN [res |-> "short", used |-> Len(buf)]
    ELSE
    LET step == try_from(AutoIdentifyStep, buf[1])
    IN  IF ~step.ok
        THEN [res |-> "IncorrectData", used |-> AutoIdentifyResponseSize]
        ELSE [res |-> "Ok", used |-> AutoIdentifyResponseSize, step |-> step.v,
              model_id |-> buf[2], score |-> u16_from_be_bytes(<<buf[5], buf[4]>>)]

\* auto.rs FromWire for AutoIdentifyResponse: <[u8; 5]>::from_wire, then the
\* step code is decoded
AutoIdentifyResponse_from_wire(buf) ==
    IF Len(buf) < AutoIdentifyResponseSize THEN [res |-> "short", used |-> Len(buf)]
    ELSE
    LET step == try_from(AutoIdentifyStep, buf[1])
    IN  IF ~step.ok
        THEN [res |-> "IncorrectData", used |-> AutoIdentifyResponseSize]
        ELSE [res |-> "Ok", used |-> AutoIdentifyResponseSize, step |-> step.v,
              model_id |-> buf[3], score |-> u16_from_be_bytes(SubSeq(buf, 4, 5))]

\* T::from_wire for the two typed bodies
Body_from_wire(T, buf) ==
    IF T = "AutoEnrollResponse" THEN AutoEnrollResponse_from_wire(buf)
    ELSE AutoIdentifyResponse_from_wire(buf)

\* Variant of Response::<T>::from_wire that reads the trailing checksum and
\* does not compare it
Response_from_wire_unverified(T, buf, lk) ==
    LET Fail(r, u) == [res |-> r, used |-> u, val |-> 0] IN
    IF Len(buf) < 2 THEN Starved(buf, lk)
    ELSE IF u16_from_be_bytes(SubSeq(buf, 1, 2)) # HEADER THEN Fail("IncorrectData", 2)
    ELSE IF Len(buf) < 10 THEN Starved(buf, lk)
    ELSE
    LET conf == try_from(ConfirmationCode, buf[10]) IN
    IF ~conf.ok THEN Fail("IncorrectData", 10)
    ELSE
    LET body == Body_from_wire(T, SubSeq(buf, 11, Len(buf)))
        n    == 10 + body.used
    IN
    IF body.res = "short" THEN Starved(buf, lk)
    ELSE IF body.res # "Ok" THEN Fail(body.res, n)
    ELSE IF Len(buf) < n + 2 THEN Starved(buf, lk)
    ELSE [res |-> "Ok", used |-> n + 2, val |-> 0,
          address |-> u32_from_be_bytes(SubSeq(buf, 3, 6)),
          ident |-> buf[7],
          length |-> u16_from_be_bytes(SubSeq(buf, 8, 9)),
          confirmation |-> conf.v,
          body |-> body]

\* Response::<T>::from_wire: header, address, then under the checksum
\* identifier, length, confirmation code and body, then the checksum
Response_from_wire(T, buf, lk) ==
    LET Fail(r, u) == [res |-> r, used |-> u, val |-> 0] IN
    IF Len(buf) < 2 THEN Starved(buf, lk)
    ELSE IF u16_from_be_bytes(SubSeq(buf, 1, 2)) # HEADER THEN Fail("IncorrectData", 2)
    ELSE IF Len(buf) < 10 THEN Starved(buf, lk)
    ELSE
    LET conf == try_from(ConfirmationCode, buf[10]) IN
    IF ~conf.ok THEN Fail("IncorrectData", 10)
    ELSE
    LET body == Body_from_wire(T, SubSeq(buf, 11, Len(buf)))
        n    == 10 + body.used
    IN
    IF body.res = "short" THEN Starved(buf, lk)
    ELSE IF body.res # "Ok" THEN Fail(body.res, n)
    ELSE IF Len(buf) < n + 2 THEN Starved(buf, lk)
    ELSE
    LET calc == Checksum_update(0, SubSeq(buf, 7, n))
        sent == u16_from_be_bytes(SubSeq(buf, n + 1, n + 2))
    IN
    IF sent # calc THEN Fail("BadChecksum", n + 2)
    ELSE [res |-> "Ok", used |-> n + 2, val |-> 0,
          address |-> u32_from_be_bytes(SubSeq(buf, 3, 6)),
          ident |-> buf[7],
          length |-> u16_from_be_bytes(SubSeq(buf, 8, 9)),
          confirmation |-> conf.v,
          body |-> body]

----------------------------------------------------------------------------
(* auto.rs: AutoEnroll                                                     *)

\* Variants of AutoEnroll::wait_step: one check left out, moved, or the wrong
\* body byte returned
wait_step_any_step(buf, lk, addr, step) ==
    LET resp == Response_from_wire("AutoEnrollResponse", buf, lk) IN
    IF resp.res # "Ok" THEN [res |-> resp.res, used |-> resp.used, val |-> 0]
    ELSE IF ~(resp.address = addr
              /\ resp.ident = PackageIdentifier.AcknowledgePacket)
    THEN [res |-> "IncorrectData", used |-> resp.used, val |-> 0]
    ELSE IF resp.confirmation # "SuccessCode"
    THEN [res |-> "BadConfirmation", used |-> resp.used,
          val |-> ConfirmationCode[resp.confirmation]]
    ELSE [res |-> "Ok", used |-> resp.used, val |-> resp.body.model_id]

wait_step_any_address(buf, lk, addr, step) ==
    LET resp == Response_from_wire("AutoEnrollResponse", buf, lk) IN
    IF resp.res # "Ok" THEN [res |-> resp.res, used |-> resp.used, val |-> 0]
    ELSE IF resp.ident # PackageIdentifier.AcknowledgePacket
    THEN [res |-> "IncorrectData", used |-> resp.used, val |-> 0]
    ELSE IF resp.confirmation # "SuccessCode"
    THEN [res |-> "BadConfirmation", used |-> resp.used,
          val |-> ConfirmationCode[resp.confirmation]]
    ELSE IF resp.body.step # step
    THEN [res |-> "IncorrectData", used |-> resp.used, val |-> 0]
    ELSE [res |-> "Ok", used |-> resp.used, val |-> resp.body.model_id]

wait_step_any_ident(buf, lk, addr, step) ==
    LET resp == Response_from_wire("AutoEnrollResponse", buf, lk) IN
    IF resp.res # "Ok" THEN [res |-> resp.res, used |-> resp.used, val |-> 0]
    ELSE IF resp.address # addr
    THEN [res |-> "IncorrectData", used |-> resp.used, val |-> 0]
    ELSE IF resp.confirmation # "SuccessCode"
    THEN [res |-> "BadConfirmation", used |-> resp.used,
          val |-> ConfirmationCode[resp.confirmation]]
    ELSE IF resp.body.step # step
    THEN [res |-> "IncorrectData", used |-> resp.used, val |-> 0]
    ELSE [res |-> "Ok", used |-> resp.used, val |-> resp.body.model_id]

wait_step_step_first(buf, lk, addr, step) ==
    LET resp == Response_from_wire("AutoEnrollResponse", buf, lk) IN
    IF resp.res # "Ok" THEN [res |-> resp.res, used |-> resp.used, val |-> 0]
    ELSE IF ~(resp.address = addr
              /\ resp.ident = PackageIdentifier.AcknowledgePacket)
    THEN [res |-> "IncorrectData", used |-> resp.used, val |-> 0]
    ELSE IF resp.body.step # step
    THEN [res |-> "IncorrectData", used |-> resp.used, val |-> 0]
    ELSE IF resp.confirmation # "SuccessCode"
    THEN [res |-> "BadConfirmation", used |-> resp.used,
          val |-> ConfirmationCode[resp.confirmation]]
    ELSE [res |-> "Ok", used |-> resp.used, val |-> resp.body.model_id]

wait_step_step_as_id(buf, lk, addr, step) ==
    LET resp == Response_from_wire("AutoEnrollResponse", buf, lk) IN
    IF resp.res # "Ok" THEN [res |-> resp.res, used |-> resp.used, val |-> 0]
    ELSE IF ~(resp.address = addr
              /\ resp.ident = PackageIdentifier.AcknowledgePacket)
    THEN [res |-> "IncorrectData", used |-> resp.used, val |-> 0]
    ELSE IF resp.confirmation # "SuccessCode"
    THEN [res |-> "BadConfirmation", used |-> resp.used,
          val |-> ConfirmationCode[resp.confirmation]]
    ELSE IF resp.body.step # step
    THEN [res |-> "IncorrectData", used |-> resp.used, val |-> 0]
    ELSE [res |-> "Ok", used |-> resp.used, val |-> AutoEnrollStep[resp.body.step]]

\* auto.rs AutoEnroll::wait_step
wait_step(buf, lk, addr, step) ==
    LET resp == Response_from_wire("AutoEnrollResponse", buf, lk) IN
    IF resp.res # "Ok" THEN [res |-> resp.res, used |-> resp.used, val |-> 0]
    ELSE IF ~(resp.address = addr
              /\ resp.ident = PackageIdentifier.AcknowledgePacket)
    THEN [res |-> "IncorrectData", used |-> resp.used, val |-> 0]
    ELSE IF resp.confirmation # "SuccessCode"
    THEN [res |-> "BadConfirmation", used |-> resp.used,
          val |-> ConfirmationCode[resp.confirmation]]
    ELSE IF resp.body.step # step
    THEN [res |-> "IncorrectData", used |-> resp.used, val |-> 0]
    ELSE [res |-> "Ok", used |-> resp.used, val |-> resp.body.model_id]

\* auto.rs Default for AutoIdentifyConfig; IdentifySafety::Three is grade 3
DefaultAutoIdentifyConfig ==
    [grade |-> 3, start_pos |-> 0, steps_or_end |-> 199, return_status |-> TRUE,
     err_count |-> [times |-> 255]]

\* AutoIdentCount as a byte: Infinite is 0x00, TimesWithTimeout(n) is n
AutoIdentCount_into(c) == IF "times" \in DOMAIN c THEN c.times ELSE 0

\* auto.rs ToWire for AutoIdentifyConfig
AutoIdentifyConfig_to_wire(cfg) ==
    <<cfg.grade, cfg.start_pos, cfg.steps_or_end, bool_as_u8(cfg.return_status),
      AutoIdentCount_into(cfg.err_count)>>

\* auto.rs AutoIdentify::wait_step
AutoIdentify_wait_step(buf, lk, addr, step) ==
    LET resp == Response_from_wire("AutoIdentifyResponse", buf, lk) IN
    IF resp.res # "Ok" THEN [res |-> resp.res, used |-> resp.used, val |-> 0]
    ELSE IF ~(resp.address = addr
              /\ resp.ident = PackageIdentifier.AcknowledgePacket)
    THEN [res |-> "IncorrectData", used |-> resp.used, val |-> 0]
    ELSE IF resp.confirmation # "SuccessCode"
    THEN [res |-> "BadConfirmation", used |-> resp.used,
          val |-> ConfirmationCode[resp.confirmation]]
    ELSE IF resp.body.step # step
    THEN [res |-> "IncorrectData", used |-> resp.used, val |-> 0]
    ELSE [res |-> "Ok", used |-> resp.used,
          val |-> [step |-> resp.body.step, model_id |-> resp.body.model_id,
                   score |-> resp.body.score]]

\* The value of type () that .map(drop) leaves in an Ok
Unit == [unit |-> TRUE]

\* Result::map(drop)
map_drop(w) == IF w.res = "Ok" THEN [w EXCEPT !.val = Unit] ELSE w

\* auto.rs AutoIdentify::wait_collect_image
wait_collect_image(buf, lk, addr) ==
    map_drop(AutoIdentify_wait_step(buf, lk, addr, "CollectImage"))

\* auto.rs AutoIdentify::wait_generate_feature
wait_generate_feature(buf, lk, addr) ==
    map_drop(AutoIdentify_wait_step(buf, lk, addr, "GenerateFeature"))

\* auto.rs AutoIdentify::wait_search
wait_search(buf, lk, addr) == AutoIdentify_wait_step(buf, lk, addr, "Search")

\* The AutoIdentify entry point that waits for step
AutoIdentify_wait(buf, lk, addr, step) ==
    IF step = "CollectImage" THEN wait_collect_image(buf, lk, addr)
    ELSE IF step = "GenerateFeature" THEN wait_generate_feature(buf, lk, addr)
    ELSE wait_search(buf, lk, addr)

\* The oneshot order with the last two waits exchanged
OneshotStepsSwapped ==
    <<"CollectImage1", "GenerateFeature1", "CollectImage2", "GenerateFeature2",
      "CollectImage3", "GenerateFeature3", "CollectImage4", "GenerateFeature4",
      "CollectImage5", "GenerateFeature5", "CollectImage6", "GenerateFeature6",
      "Repeatfingerprint", "StorageTemplate", "MergeFeature">>

\* auto.rs AutoEnroll::oneshot: the wait_* calls in the order it makes them
OneshotSteps ==
    <<"CollectImage1", "GenerateFeature1", "CollectImage2", "GenerateFeature2",
      "CollectImage3", "GenerateFeature3", "CollectImage4", "GenerateFeature4",
      "CollectImage5", "GenerateFeature5", "CollectImage6", "GenerateFeature6",
      "Repeatfingerprint", "MergeFeature", "StorageTemplate">>

StepNames == DOMAIN AutoEnrollStep

\* Length of one auto-enroll acknowledge on the wire
FrameLen == 2 + 4 + 1 + 2 + 1 + AutoEnrollResponseSize + 2

\* How many wait_* calls a caller driving the steps itself makes
MaxCalls == 2

Prefix(s, n) == SubSeq(s, 1, IF Len(s) < n THEN Len(s) ELSE n)

Drop(s, n) == SubSeq(s, n + 1, Len(s))

NoCall ==
    [op |-> "none", step |-> "none", res |-> "none", val |-> 0, used |-> 0,
     frame |-> <<>>, had |-> 0, before |-> 0, after |-> FALSE]

\* Bytes of an acknowledge as a device (or line noise) puts it on the wire; ckd
\* is added to the correct checksum.
Frame(magic, addr, ident, len, conf, body, ckd) ==
    LET covered == <<ident>> \o u16_to_be_bytes(len) \o <<conf>> \o body
    IN  u16_to_be_bytes(magic) \o u32_to_be_bytes(addr) \o covered
            \o u16_to_be_bytes((SumBytes(covered) + ckd) % U16)

AckFrame(magic, addr, ident, len, conf, step, rsv, id, ckd) ==
    Frame(magic, addr, ident, len, conf, <<step, rsv, id>>, ckd)

OtherAddress == <<0, 1>>

Addresses == {ADDRESS, OtherAddress}

\* Acknowledges a single wait_* call is tried on: every combination of good and
\* bad magic, address, identifier, confirmation code (success, a failure, an
\* undefined value) and checksum, with every step code from 0x00 to 0x10.
AnyFrames ==
    {AckFrame(m, a, i, 6, c, st, 0, 7, ckd) :
        m \in {HEADER, 61184}, a \in Addresses, i \in {7, 2}, c \in {0, 1, 4},
        st \in 0..16, ckd \in {0, 1}}

\* The same for AutoIdentify, whose acknowledges have five body bytes
IdentFrameLen == 2 + 4 + 1 + 2 + 1 + AutoIdentifyResponseSize + 2

\* Reserved byte, model id and score bytes tried in an AutoIdentify acknowledge
IdentTails == {<<0, 7, 0, 80>>, <<9, 200, 1, 2>>}

AnyIdentFrames ==
    {Frame(m, a, i, 8, c, <<st>> \o t, ckd) :
        m \in {HEADER, 61184}, a \in Addresses, i \in {7, 2}, c \in {0, 1, 4},
        st \in 0..4, t \in IdentTails, ckd \in {0, 1}}

\* A further acknowledge queued behind unread bytes
FollowFrames == {AckFrame(HEADER, ADDRESS, 7, 6, 0, 2, 0, 7, 0)}

\* The fifteen progress reports of a device at ADDRESS, with model ids from ids
ProgressFrames(ids) ==
    {AckFrame(HEADER, ADDRESS, 7, 6, 0, st, 0, id, 0) : st \in 1..15, id \in ids}

\* One acknowledge for each way of being wrong: another device's address, a
\* non-acknowledge identifier, a failure code, an undefined confirmation code,
\* an undefined step code, a wrong checksum, a wrong magic
FaultFrames ==
    {AckFrame(HEADER, OtherAddress, 7, 6, 0, 1, 0, 3, 0),
     AckFrame(HEADER, ADDRESS, 2, 6, 0, 1, 0, 3, 0),
     AckFrame(HEADER, ADDRESS, 7, 6, 38, 1, 0, 3, 0),
     AckFrame(HEADER, ADDRESS, 7, 6, 4, 1, 0, 3, 0),
     AckFrame(HEADER, ADDRESS, 7, 6, 0, 16, 0, 3, 0),
     AckFrame(HEADER, ADDRESS, 7, 6, 0, 15, 0, 3, 1),
     AckFrame(61184, ADDRESS, 7, 6, 0, 1, 0, 3, 0)}

\* What the device sends to a caller driving the steps itself, and to oneshot
StepsFrames == ProgressFrames({3}) \cup FaultFrames

OneshotFrames == ProgressFrames({3, 9}) \cup FaultFrames

Configs == {DefaultAutoEnrollConfig}

\* auto.rs AutoEnroll::start: Command::to_wire on the serial. failAt = 0: every
\* write_all succeeds; failAt = k: the link breaks at the k-th write_all.
start(addr, cfg, lk, failAt) ==
    LET chunks == Command_to_wire(addr, Commands.AutomaticRegistrationTemplate,
                                  AutoEnrollConfig_to_wire(cfg))
    IN  IF lk # "up" THEN [res |-> "Wire", written |-> <<>>]
        ELSE IF failAt = 0 THEN [res |-> "Ok", written |-> Concat(chunks)]
        ELSE [res |-> "Wire", written |-> Concat(SubSeq(chunks, 1, failAt - 1))]

\* A valid acknowledge carrying step code k, judged on the bytes alone
GoodAck(f, addr, k) ==
    /\ Len(f) = FrameLen
    /\ f = AckFrame(HEADER, addr, 7, u16_from_be_bytes(SubSeq(f, 8, 9)), 0, k,
                    f[12], f[13], 0)

\* Ghost bookkeeping of a wait for `step` that consumes from buf
Advances(buf, addr, step, prog) ==
    /\ AutoEnrollStep[step] = prog + 1
    /\ GoodAck(Prefix(buf, FrameLen), addr, prog + 1)

\* A caller calls start on a new object
Start(cfg, failAt) ==
    /\ pc.at = "new"
    /\ LET w == start(address, cfg, link, failAt) IN
        /\ tx' = tx \o w.written
        /\ link' = IF w.res = "Ok" THEN link ELSE "broken"
        /\ ret' = [NoCall EXCEPT !.op = "start", !.res = w.res]
        /\ pc' = [at |-> IF w.res = "Ok" THEN "started" ELSE "failed", k |-> 0]
    /\ progress' = 0
    /\ terminal' = FALSE
    /\ earlier' = {}
    /\ UNCHANGED <<package, address, rx>>

\* A caller calls one of the fifteen wait_<step> entry points
Wait(step) ==
    /\ pc.at = "started"
    /\ pc.k < MaxCalls
    /\ LET w == wait_step(rx, link, address, step) IN
        /\ w.res # "Pending"
        /\ rx' = Drop(rx, w.used)
        /\ ret' = [op |-> "wait", step |-> step, res |-> w.res, val |-> w.val,
                   used |-> w.used, frame |-> Prefix(rx, FrameLen), had |-> Len(rx),
                   before |-> progress, after |-> terminal]
        /\ terminal' = (terminal \/ w.res # "Ok" \/ step = "StorageTemplate")
    /\ progress' = IF Advances(rx, address, step, progress) THEN progress + 1
                   ELSE progress
    /\ pc' = [pc EXCEPT !.k = @ + 1]
    /\ UNCHANGED <<package, address, tx, link, earlier>>

\* A caller calls one of the three AutoIdentify wait_<step> entry points
IdentifyWait(step) ==
    /\ pc.at = "identifying"
    /\ pc.k < MaxCalls
    /\ LET w == AutoIdentify_wait(rx, link, address, step) IN
        /\ w.res # "Pending"
        /\ rx' = Drop(rx, w.used)
        /\ ret' = [op |-> "wait_identify", step |-> step, res |-> w.res,
                   val |-> w.val, used |-> w.used,
                   frame |-> Prefix(rx, IdentFrameLen), had |-> Len(rx),
                   before |-> progress, after |-> terminal]
        /\ terminal' = (terminal \/ w.res # "Ok")
    /\ pc' = [pc EXCEPT !.k = @ + 1]
    /\ UNCHANGED <<package, address, tx, link, progress, earlier>>

\* auto.rs AutoEnroll::oneshot, first line: self.start(cfg).await?
OneshotStart(cfg, failAt) ==
    /\ pc.at = "new"
    /\ LET w == start(address, cfg, link, failAt) IN
        /\ tx' = tx \o w.written
        /\ link' = IF w.res = "Ok" THEN link ELSE "broken"
        /\ ret' = [NoCall EXCEPT !.op = IF w.res = "Ok" THEN "start" ELSE "oneshot",
                                 !.res = w.res]
        /\ pc' = IF w.res = "Ok" THEN [at |-> "oneshot", k |-> 1]
                 ELSE [at |-> "done", k |-> 0]
    /\ progress' = 0
    /\ terminal' = FALSE
    /\ earlier' = {}
    /\ UNCHANGED <<package, address, rx>>

\* A oneshot that goes on to the next wait whatever the last one returned
oneshot_after_continue(k, w) ==
    IF k < Len(OneshotSteps)
    THEN [at |-> "oneshot", k |-> k + 1]
    ELSE [at |-> "done", k |-> k]

\* auto.rs AutoEnroll::oneshot, the k-th self.wait_<step>().await?: an error
\* returns from oneshot, Ok goes on to the next wait, and the last wait's
\* result is oneshot's.
oneshot_after(k, w) ==
    IF w.res = "Ok" /\ k < Len(OneshotSteps)
    THEN [at |-> "oneshot", k |-> k + 1]
    ELSE [at |-> "done", k |-> k]

OneshotWait ==
    /\ pc.at = "oneshot"
    /\ LET step == OneshotSteps[pc.k]
           w    == wait_step(rx, link, address, step)
           nxt  == oneshot_after(pc.k, w)
       IN
        /\ w.res # "Pending"
        /\ rx' = Drop(rx, w.used)
        /\ pc' = nxt
        /\ ret' = IF nxt.at = "done"
                  THEN [op |-> "oneshot", step |-> step, res |-> w.res,
                        val |-> w.val, used |-> w.used,
                        frame |-> Prefix(rx, FrameLen), had |-> Len(rx),
                        before |-> progress, after |-> terminal]
                  ELSE ret
        /\ terminal' = (terminal \/ w.res # "Ok" \/ step = "StorageTemplate")
        /\ progress' = IF Advances(rx, address, step, progress) THEN progress + 1
                       ELSE progress
        /\ earlier' = IF Advances(rx, address, step, progress) /\ progress < 14
                      THEN earlier \cup {rx[13]} ELSE earlier
    /\ UNCHANGED <<package, address, tx, link>>

\* The device answers: one acknowledge on an idle line
DeviceSend(f) ==
    /\ link = "up"
    /\ pc.at \in {"started", "oneshot", "identify", "done"}
    /\ rx = <<>>
    /\ rx' = f
    /\ UNCHANGED <<package, address, tx, link, pc, ret, progress, terminal, earlier>>

\* The device sends its next acknowledge while earlier bytes are still unread
DeviceQueue(f) ==
    /\ link = "up"
    /\ pc.at \in {"started", "oneshot", "identify", "done"}
    /\ rx # <<>>
    /\ Len(rx) <= FrameLen
    /\ rx' = rx \o f
    /\ UNCHANGED <<package, address, tx, link, pc, ret, progress, terminal, earlier>>

\* The transport closes (reads end in EOF) or breaks (I/O errors)
LinkDown(kind) ==
    /\ link = "up"
    /\ pc.at \in {"new", "started", "oneshot", "identify"}
    /\ Len(rx) < FrameLen
    /\ link' = kind
    /\ UNCHANGED <<package, address, rx, tx, pc, ret, progress, terminal, earlier>>

----------------------------------------------------------------------------
(* demo main.rs: auto_identify                                             *)

\* Largest n of the TimesWithTimeout(n) budgets tried
MaxTimes == 2

\* Cycles a run is followed for (a run with budget Infinite does not end)
MaxCycles == 3

Infinite == [infinite |-> TRUE]

TimesWithTimeout(n) == [times |-> n]

IdentConfigs ==
    {[DefaultAutoIdentifyConfig EXCEPT !.err_count = c] :
        c \in {Infinite} \cup {TimesWithTimeout(n) : n \in 0..MaxTimes}}

\* What the device sends during an identify run: the three progress reports,
\* each also with the failure code 0x09, one with a wrong checksum and one with
\* an undefined step code
IdentFrames ==
    {Frame(HEADER, ADDRESS, 7, 8, c, <<st, 0, 7, 0, 80>>, 0) :
        st \in 1..3, c \in {0, 9}}
    \cup {Frame(HEADER, ADDRESS, 7, 8, 0, <<1, 0, 7, 0, 80>>, 1),
          Frame(HEADER, ADDRESS, 7, 8, 0, <<0, 0, 7, 0, 80>>, 0)}

\* A start that returns Ok before the checksum of the frame is written
identify_start_unflushed(addr, cfg, lk, failAt) ==
    LET chunks == Command_to_wire(addr, Commands.AutomaticFingerprintVerification,
                                  AutoIdentifyConfig_to_wire(cfg))
    IN  IF lk # "up" THEN [res |-> "Wire", written |-> <<>>]
        ELSE IF failAt = 0
        THEN [res |-> "Ok", written |-> Concat(SubSeq(chunks, 1, Len(chunks) - 1))]
        ELSE [res |-> "Wire", written |-> Concat(SubSeq(chunks, 1, failAt - 1))]

\* auto.rs AutoIdentify::start: Command::to_wire on the serial
identify_start(addr, cfg, lk, failAt) ==
    LET chunks == Command_to_wire(addr, Commands.AutomaticFingerprintVerification,
                                  AutoIdentifyConfig_to_wire(cfg))
    IN  IF lk # "up" THEN [res |-> "Wire", written |-> <<>>]
        ELSE IF failAt = 0 THEN [res |-> "Ok", written |-> Concat(chunks)]
        ELSE [res |-> "Wire", written |-> Concat(SubSeq(chunks, 1, failAt - 1))]

\* A budget that lets a cycle begin after k cycles, one more than the loop allows
MoreAttemptsInclusive(err_count, k) ==
    IF "times" \in DOMAIN err_count THEN k < err_count.times + 1 ELSE TRUE

\* main.rs auto_identify: `for _ in 0..times` lets another cycle begin after k
\* cycles; times is n for TimesWithTimeout(n) and usize::MAX for Infinite
MoreAttempts(err_count, k) ==
    IF "times" \in DOMAIN err_count THEN k < err_count.times ELSE TRUE

\* A loop that retries a failed collect or feature wait within the budget
auto_identify_after_retry(p, w) ==
    LET Done(res, val) == [at |-> "done", k |-> p.k, step |-> p.step,
                           res |-> res, val |-> val]
        Go(k, step)    == [at |-> "identify", k |-> k, step |-> step,
                           res |-> "none", val |-> 0]
    IN  IF w.res = "Ok"
        THEN IF p.step = "CollectImage" THEN Go(p.k, "GenerateFeature")
             ELSE IF p.step = "GenerateFeature" THEN Go(p.k, "Search")
             ELSE Done("Ok", 0)
        ELSE IF MoreAttempts(p.err_count, p.k) THEN Go(p.k + 1, "CollectImage")
        ELSE Done("Ok", 0)

\* A loop that returns the error of a failed search wait
auto_identify_after_surface(p, w) ==
    LET Done(res, val) == [at |-> "done", k |-> p.k, step |-> p.step,
                           res |-> res, val |-> val]
        Go(k, step)    == [at |-> "identify", k |-> k, step |-> step,
                           res |-> "none", val |-> 0]
    IN  IF w.res # "Ok" THEN Done(w.res, w.val)
        ELSE IF p.step = "CollectImage" THEN Go(p.k, "GenerateFeature")
        ELSE IF p.step = "GenerateFeature" THEN Go(p.k, "Search")
        ELSE Done("Ok", 0)

\* main.rs auto_identify, after the wait for p.step returned w: the two `?`,
\* the match on the search result, and the end of the for loop
auto_identify_after(p, w) ==
    LET Done(res, val) == [at |-> "done", k |-> p.k, step |-> p.step,
                           res |-> res, val |-> val]
        Go(k, step)    == [at |-> "identify", k |-> k, step |-> step,
                           res |-> "none", val |-> 0]
    IN  IF p.step = "CollectImage"
        THEN IF w.res = "Ok" THEN Go(p.k, "GenerateFeature")
             ELSE Done(w.res, w.val)
        ELSE IF p.step = "GenerateFeature"
        THEN IF w.res = "Ok" THEN Go(p.k, "Search") ELSE Done(w.res, w.val)
        ELSE IF w.res = "Ok" THEN Done("Ok", 0)
        ELSE IF MoreAttempts(p.err_count, p.k) THEN Go(p.k + 1, "CollectImage")
        ELSE Done("Ok", 0)

\* main.rs auto_identify up to the loop: AutoIdentify::new, start(cfg).await?,
\* and the first pass through the loop head
AutoIdentifyStart(cfg, failAt) ==
    /\ pc.at = "new"
    /\ LET w  == identify_start(address, cfg, link, failAt)
           go == w.res = "Ok" /\ MoreAttempts(cfg.err_count, 0)
       IN
        /\ tx' = tx \o w.written
        /\ link' = IF w.res = "Ok" THEN link ELSE "broken"
        /\ pc' = [at |-> IF go THEN "identify" ELSE "done",
                  k |-> IF go THEN 1 ELSE 0,
                  step |-> IF go THEN "CollectImage" ELSE "none",
                  err_count |-> cfg.err_count]
        /\ ret' = IF go THEN [NoCall EXCEPT !.op = "start", !.res = "Ok"]
                  ELSE [NoCall EXCEPT !.op = "auto_identify", !.res = w.res]
    /\ progress' = 0
    /\ terminal' = FALSE
    /\ earlier' = {}
    /\ UNCHANGED <<package, address, rx>>

\* main.rs auto_identify, one wait of the loop. progress counts the waits that
\* returned, terminal records an accepted search acknowledge, earlier the
\* waits that failed.
AutoIdentifyWait ==
    /\ pc.at = "identify"
    /\ LET w   == AutoIdentify_wait(rx, link, address, pc.step)
           nxt == auto_identify_after(pc, w)
       IN
        /\ w.res # "Pending"
        /\ nxt.k <= MaxCycles
        /\ rx' = Drop(rx, w.used)
        /\ pc' = [at |-> nxt.at, k |-> nxt.k, step |-> nxt.step,
                  err_count |-> pc.err_count]
        /\ ret' = IF nxt.at = "done"
                  THEN [NoCall EXCEPT !.op = "auto_identify", !.step = pc.step,
                                      !.res = nxt.res, !.val = nxt.val]
                  ELSE ret
        /\ terminal' = (terminal \/ (pc.step = "Search" /\ w.res = "Ok"))
        /\ earlier' = IF w.res # "Ok" THEN earlier \cup {<<pc.step, w.res>>}
                      ELSE earlier
    /\ progress' = progress + 1
    /\ UNCHANGED <<package, address, tx, link>>

\* AutoEnroll::new(address, serial)
InitEnroll ==
    /\ package = DefaultPackage
    /\ address = ADDRESS
    /\ rx = <<>>
    /\ tx = <<>>
    /\ link = "up"
    /\ pc = [at |-> "new", k |-> 0]
    /\ ret = NoCall
    /\ progress = 0
    /\ terminal = FALSE
    /\ earlier = {}

\* A caller driving the steps itself, in any order
NextSteps ==
    \/ \E cfg \in Configs, failAt \in 0..7 : Start(cfg, failAt)
    \/ \E step \in StepNames : Wait(step)
    \/ \E f \in StepsFrames : DeviceSend(f)
    \/ \E f \in FollowFrames : DeviceQueue(f)
    \/ \E kind \in {"closed", "broken"} : LinkDown(kind)

SpecSteps == InitEnroll /\ [][NextSteps]_vars

\* A caller of oneshot
NextOneshot ==
    \/ \E cfg \in Configs, failAt \in 0..7 : OneshotStart(cfg, failAt)
    \/ OneshotWait
    \/ \E f \in OneshotFrames : DeviceSend(f)
    \/ \E f \in FollowFrames : DeviceQueue(f)
    \/ \E kind \in {"closed", "broken"} : LinkDown(kind)

SpecOneshot == InitEnroll /\ [][NextOneshot]_vars

\* Values a corrupted byte may take
MutantBytes == {0, 1, 2, 4, 7, 16, 255}

\* Acknowledges either object accepts at one of its entry points
AcceptedFrames == ProgressFrames({3})

AcceptedIdentFrames ==
    {Frame(HEADER, ADDRESS, 7, 8, 0, <<st, 0, 7, 0, 80>>, 0) : st \in 1..3}

\* f with one byte of the region the checksum covers (identifier, length,
\* confirmation code, body) set to another value, the trailing checksum kept
Corrupted(f) ==
    {[f EXCEPT ![p] = v] : p \in 7..(Len(f) - 2), v \in MutantBytes} \ {f}

\* One wait_* call tried on a corrupted acknowledge
InitCorrupted ==
    /\ package = DefaultPackage
    /\ address = ADDRESS
    /\ link = "up"
    /\ \/ /\ pc = [at |-> "started", k |-> MaxCalls - 1]
          /\ \E f \in AcceptedFrames : rx \in Corrupted(f)
          /\ tx = Concat(Command_to_wire(address,
                             Commands.AutomaticRegistrationTemplate,
                             AutoEnrollConfig_to_wire(DefaultAutoEnrollConfig)))
       \/ /\ pc = [at |-> "identifying", k |-> MaxCalls - 1]
          /\ \E f \in AcceptedIdentFrames : rx \in Corrupted(f)
          /\ tx = Concat(Command_to_wire(address,
                             Commands.AutomaticFingerprintVerification,
                             AutoIdentifyConfig_to_wire(DefaultAutoIdentifyConfig)))
    /\ ret = [NoCall EXCEPT !.op = "start", !.res = "Ok"]
    /\ progress = 0
    /\ terminal = FALSE
    /\ earlier = {}

\* A caller of the demo's auto_identify
NextIdentify ==
    \/ \E cfg \in IdentConfigs, failAt \in 0..7 : AutoIdentifyStart(cfg, failAt)
    \/ AutoIdentifyWait
    \/ \E f \in IdentFrames : DeviceSend(f)
    \/ \E kind \in {"closed", "broken"} : LinkDown(kind)

SpecIdentify == InitEnroll /\ [][NextIdentify]_vars

\* One wait_* call tried on given input: the object (an AutoEnroll or an
\* AutoIdentify) was started, the serial holds an acknowledge, alone or with
\* another one behind it, and the call is the caller's last.
InitWait ==
    /\ package = DefaultPackage
    /\ address = ADDRESS
    /\ link = "up"
    /\ \/ /\ pc = [at |-> "started", k |-> MaxCalls - 1]
          /\ \E f \in AnyFrames, g \in {<<>>} \cup FollowFrames : rx = f \o g
          /\ tx = Concat(Command_to_wire(address,
                             Commands.AutomaticRegistrationTemplate,
                             AutoEnrollConfig_to_wire(DefaultAutoEnrollConfig)))
       \/ /\ pc = [at |-> "identifying", k |-> MaxCalls - 1]
          /\ \E f \in AnyIdentFrames, g \in {<<>>} \cup FollowFrames : rx = f \o g
          /\ tx = Concat(Command_to_wire(address,
                             Commands.AutomaticFingerprintVerification,
                             AutoIdentifyConfig_to_wire(DefaultAutoIdentifyConfig)))
    /\ ret = [NoCall EXCEPT !.op = "start", !.res = "Ok"]
    /\ progress = 0
    /\ terminal = FALSE
    /\ earlier = {}

NextWait ==
    \/ \E step \in StepNames : Wait(step)
    \/ \E step \in DOMAIN AutoIdentifyStep : IdentifyWait(step)

SpecWait == InitWait /\ [][NextWait]_vars

SpecCorrupted == InitCorrupted /\ [][NextWait]_vars

----------------------------------------------------------------------------
(* Properties of the wait_* calls and of oneshot                           *)

\* Fields of an acknowledge as it lies on the wire
F_magic(f) == u16_from_be_bytes(SubSeq(f, 1, 2))

F_address(f) == u32_from_be_bytes(SubSeq(f, 3, 6))

F_ident(f) == f[7]

F_confirmation(f) == f[10]

F_step(f) == f[11]

F_checksum_good(f) ==
    u16_from_be_bytes(SubSeq(f, Len(f) - 1, Len(f)))
        = SumBytes(SubSeq(f, 7, Len(f) - 2)) % U16

Codes(enum) == {enum[n] : n \in DOMAIN enum}

\* The last call was a wait_* of an AutoEnroll / of either object
EnrollCall == ret.op = "wait"

WaitCall == ret.op \in {"wait", "wait_identify"}

\* The step enum of the object called, and the code the entry point expects
StepEnum == IF ret.op = "wait" THEN AutoEnrollStep ELSE AutoIdentifyStep

Expected == StepEnum[ret.step]

AddressAndIdentMatch ==
    /\ F_address(ret.frame) = address
    /\ F_ident(ret.frame) = 7

BytesDefined ==
    /\ F_confirmation(ret.frame) \in Codes(ConfirmationCode)
    /\ F_step(ret.frame) \in Codes(StepEnum)

\* C3: a wait_<step> call of an AutoEnroll returns Ok only if the step code in
\* the acknowledge it consumed is the one its entry point expects, and an
\* acknowledge that is valid in everything else (magic, address, identifier,
\* Success, checksum) but carries another defined step code makes it return
\* IncorrectData.
C3_StepMonotonicity ==
    EnrollCall =>
        /\ (ret.res = "Ok" => F_step(ret.frame) = Expected)
        /\ (/\ F_magic(ret.frame) = HEADER
            /\ AddressAndIdentMatch
            /\ F_confirmation(ret.frame) = 0
            /\ F_checksum_good(ret.frame)
            /\ F_step(ret.frame) \in Codes(AutoEnrollStep)
            /\ F_step(ret.frame) # Expected
            => ret.res = "IncorrectData")

\* Step 0x02 arrived at wait_collect_image1 in an otherwise valid acknowledge
C3_Witness ==
    /\ EnrollCall
    /\ ret.step = "CollectImage1"
    /\ F_step(ret.frame) = 2
    /\ F_magic(ret.frame) = HEADER
    /\ AddressAndIdentMatch
    /\ F_confirmation(ret.frame) = 0
    /\ F_checksum_good(ret.frame)
    /\ ret.res = "IncorrectData"

\* C4: a wait_* call of an AutoEnroll or an AutoIdentify returns Ok only if the
\* acknowledge it consumed has the address the object was constructed with, the
\* identifier AcknowledgePacket (0x07) and the confirmation code Success (0x00).
C4_AcceptsOnlyOwnAcknowledge ==
    WaitCall /\ ret.res = "Ok" =>
        /\ F_address(ret.frame) = address
        /\ F_ident(ret.frame) = 7
        /\ F_confirmation(ret.frame) = 0

\* An AutoIdentify wait accepted an acknowledge, and it was addressed to it
C4_Witness ==
    /\ ret.op = "wait_identify"
    /\ ret.res = "Ok"
    /\ F_address(ret.frame) = address
    /\ F_address(ret.frame) # OtherAddress

\* C5 as stated: for an acknowledge with a good checksum, a wrong address or
\* identifier gives IncorrectData whatever the confirmation code; with matching
\* address and identifier any non-success confirmation code c gives
\* BadConfirmation(c) whatever the step code; a step mismatch is reported only
\* when the other three are valid.
C5_AnyCodeIsBadConfirmation ==
    WaitCall /\ F_magic(ret.frame) = HEADER /\ F_checksum_good(ret.frame) =>
        /\ (~AddressAndIdentMatch => ret.res = "IncorrectData")
        /\ (AddressAndIdentMatch /\ F_confirmation(ret.frame) # 0
            => ret.res = "BadConfirmation" /\ ret.val = F_confirmation(ret.frame))
        /\ (/\ AddressAndIdentMatch
            /\ F_confirmation(ret.frame) = 0
            /\ F_step(ret.frame) # Expected
            => ret.res = "IncorrectData")

\* C5: the same priority, with BadConfirmation(c) only for a confirmation byte
\* and a step byte that both decode: a byte that is no ConfirmationCode or no
\* step code gives IncorrectData before address, identifier or confirmation are
\* looked at.
C5_ValidationPriority ==
    WaitCall /\ F_magic(ret.frame) = HEADER /\ F_checksum_good(ret.frame) =>
        /\ (~AddressAndIdentMatch => ret.res = "IncorrectData")
        /\ (~BytesDefined => ret.res = "IncorrectData")
        /\ (AddressAndIdentMatch /\ BytesDefined /\ F_confirmation(ret.frame) # 0
            => ret.res = "BadConfirmation" /\ ret.val = F_confirmation(ret.frame))
        /\ (/\ AddressAndIdentMatch
            /\ BytesDefined
            /\ F_confirmation(ret.frame) = 0
            /\ F_step(ret.frame) # Expected
            => ret.res = "IncorrectData")

\* A failure code together with a step other than the expected one was
\* reported as BadConfirmation with that code
C5_Witness ==
    /\ EnrollCall
    /\ F_checksum_good(ret.frame)
    /\ AddressAndIdentMatch
    /\ F_confirmation(ret.frame) = 1
    /\ F_step(ret.frame) \in Codes(AutoEnrollStep)
    /\ F_step(ret.frame) # Expected
    /\ ret.res = "BadConfirmation"
    /\ ret.val = 1

\* What may be left on the serial after a call that took one whole acknowledge
FrameBoundary == rx \in {<<>>} \cup FollowFrames

\* C6 as stated: a wait_<step> call handed a complete acknowledge consumes all
\* of its bytes and none of the next frame, whatever it returns.
C6_AlwaysWholeFrame ==
    EnrollCall /\ F_magic(ret.frame) = HEADER =>
        ret.used = FrameLen /\ FrameBoundary

\* C6: a wait_<step> call handed a complete acknowledge consumes exactly that
\* frame when its confirmation byte and step byte decode, whether it returns Ok,
\* BadConfirmation, IncorrectData or BadChecksum; it stops after the magic when
\* that is wrong, after the confirmation byte when that is no ConfirmationCode,
\* and after the three body bytes when the step byte is no step code.
C6_ConsumesDecodedFrame ==
    EnrollCall =>
        /\ Len(rx) = ret.had - ret.used
        /\ (F_magic(ret.frame) # HEADER
            => ret.used = 2 /\ ret.res = "IncorrectData")
        /\ (/\ F_magic(ret.frame) = HEADER
            /\ F_confirmation(ret.frame) \notin Codes(ConfirmationCode)
            => ret.used = 10 /\ ret.res = "IncorrectData")
        /\ (/\ F_magic(ret.frame) = HEADER
            /\ F_confirmation(ret.frame) \in Codes(ConfirmationCode)
            /\ F_step(ret.frame) \notin Codes(AutoEnrollStep)
            => ret.used = 10 + AutoEnrollResponseSize /\ ret.res = "IncorrectData")
        /\ (F_magic(ret.frame) = HEADER /\ BytesDefined
            => /\ ret.used = FrameLen
               /\ FrameBoundary
               /\ ret.res \in {"Ok", "BadConfirmation", "IncorrectData",
                               "BadChecksum"})

\* A call that failed on the checksum took the whole frame and left the
\* acknowledge behind it untouched
C6_Witness ==
    /\ EnrollCall
    /\ ret.res = "BadChecksum"
    /\ ret.used = FrameLen
    /\ rx \in FollowFrames

\* oneshot has returned
OneshotDone == pc.at = "done"

C8_FirstFailureSurfaced ==
    /\ [](terminal => OneshotDone)
    /\ [](OneshotDone /\ ret.res # "Ok" =>
            IF pc.k = 0 THEN ret.res = "Wire" /\ progress = 0
            ELSE /\ ret.step = OneshotSteps[pc.k]
                 /\ progress = pc.k - 1
                 /\ ~GoodAck(ret.frame, address, pc.k)
                 /\ LET w == wait_step(ret.frame, link, address, ret.step)
                    IN  ret.res = w.res /\ ret.val = w.val)
    /\ [][OneshotDone =>
            /\ tx' = tx
            /\ pc' = pc
            /\ ret' = ret
            /\ Len(rx') >= Len(rx)
            /\ SubSeq(rx', 1, Len(rx)) = rx]_vars

\* oneshot failed at its second wait, and a later acknowledge lies unread
C8_Witness ==
    /\ OneshotDone
    /\ pc.k = 2
    /\ ret.res = "BadConfirmation"
    /\ rx \in OneshotFrames

\* C9 as stated: once a wait_* call has returned an error, or
\* wait_storage_template has returned Ok, no later wait_* call on the object
\* returns Ok.
C9_RejectedAfterTerminal == EnrollCall /\ ret.after => ret.res # "Ok"

\* C9: the object keeps no record of earlier results; a wait_* call made after
\* an error or after completion returns Ok exactly when the acknowledge it
\* reads is valid and carries its step, as a first call does.
C9_JudgedOnAcknowledgeAlone ==
    EnrollCall =>
        (ret.res = "Ok" <=> GoodAck(ret.frame, address, AutoEnrollStep[ret.step]))

\* A wait_* call after an earlier failure accepted an acknowledge
C9_Witness ==
    /\ EnrollCall
    /\ ret.after
    /\ ret.res = "Ok"

\* C10 as stated: wait_storage_template returns Ok only after acknowledges with
\* the step codes 0x01 to 0x0E have been accepted in that order since the
\* start.
C10_StoredOnlyAfterFourteen ==
    EnrollCall /\ ret.step = "StorageTemplate" /\ ret.res = "Ok" =>
        ret.before = 14

\* C10: wait_storage_template returns Ok(model_id) exactly when the acknowledge
\* it reads is valid and carries step code 0x0F, however many steps were
\* accepted before; model_id is that acknowledge's.
C10_StoredOnValidLastStep ==
    EnrollCall /\ ret.step = "StorageTemplate" =>
        /\ (ret.res = "Ok" <=> GoodAck(ret.frame, address, 15))
        /\ (ret.res = "Ok" => ret.val = ret.frame[13])

\* wait_storage_template, called first after start, returned Ok
C10_Witness ==
    /\ EnrollCall
    /\ ret.step = "StorageTemplate"
    /\ ret.res = "Ok"
    /\ ret.before = 0
    /\ pc.k = 1

\* C11 as stated: a wait_* call on an acknowledge whose transmitted checksum
\* differs from the recomputed one returns BadChecksum, whatever the address,
\* confirmation and step code are.
C11_AlwaysBadChecksum ==
    WaitCall /\ F_magic(ret.frame) = HEADER /\ ~F_checksum_good(ret.frame) =>
        ret.res = "BadChecksum"

\* C11: a wait_* call on an acknowledge whose transmitted checksum differs from
\* the one recomputed over identifier, length, confirmation code and body never
\* returns Ok; the error is BadChecksum, whatever the address is, when the
\* confirmation byte and the step byte are defined codes, and IncorrectData
\* when one of them is not.
C11_BadChecksumNeverAccepted ==
    WaitCall /\ ~F_checksum_good(ret.frame) =>
        /\ ret.res # "Ok"
        /\ (F_magic(ret.frame) = HEADER /\ BytesDefined => ret.res = "BadChecksum")
        /\ (F_magic(ret.frame) = HEADER /\ ~BytesDefined
            => ret.res = "IncorrectData")

\* An acknowledge that passes every other check of the call, with a wrong
\* checksum, was refused with BadChecksum
C11_Witness ==
    /\ EnrollCall
    /\ ~F_checksum_good(ret.frame)
    /\ F_magic(ret.frame) = HEADER
    /\ AddressAndIdentMatch
    /\ F_confirmation(ret.frame) = 0
    /\ F_step(ret.frame) = Expected
    /\ ret.res = "BadChecksum"

\* An acknowledge the called object accepts at some entry point
Accepted(f) ==
    /\ F_magic(f) = HEADER
    /\ F_address(f) = address
    /\ F_ident(f) = 7
    /\ F_confirmation(f) = 0
    /\ F_step(f) \in Codes(StepEnum)
    /\ F_checksum_good(f)

\* What the transmitted checksum of f exceeds the sum of its covered bytes by
ChecksumExcess(f) ==
    u16_from_be_bytes(SubSeq(f, Len(f) - 1, Len(f)))
        - SumBytes(SubSeq(f, 7, Len(f) - 2))

\* f differs in exactly one covered byte from an acknowledge that is accepted
\* (the byte's old value is the one that makes the checksum right)
OneByteFromAccepted(f) ==
    \E p \in 7..(Len(f) - 2) :
        LET v == f[p] + ChecksumExcess(f)
        IN  /\ v \in 0..255
            /\ v # f[p]
            /\ Accepted([f EXCEPT ![p] = v])

\* C12 as stated: an accepted acknowledge with one covered byte changed and the
\* checksum kept is rejected with BadChecksum and with no other error.
C12_OnlyBadChecksum ==
    WaitCall /\ OneByteFromAccepted(ret.frame) => ret.res = "BadChecksum"

\* C12: an accepted acknowledge with one covered byte changed and the checksum
\* kept is always rejected: with BadChecksum when the confirmation byte and the
\* step byte are still defined codes, and with IncorrectData when the changed
\* byte is the confirmation code or the step code and its new value is no
\* defined code.
C12_CorruptedByteRejected ==
    WaitCall /\ OneByteFromAccepted(ret.frame) =>
        /\ ret.res # "Ok"
        /\ (BytesDefined => ret.res = "BadChecksum")
        /\ (~BytesDefined => ret.res = "IncorrectData")

\* The identifier byte was changed, and the call failed on the checksum
C12_Witness ==
    /\ EnrollCall
    /\ OneByteFromAccepted(ret.frame)
    /\ F_ident(ret.frame) = 2
    /\ F_step(ret.frame) = Expected
    /\ ret.res = "BadChecksum"

----------------------------------------------------------------------------
(* Claims about the demo's auto_identify loop (SpecIdentify)               *)

\* auto_identify has returned
IdentifyDone == pc.at = "done" /\ ret.op = "auto_identify"

\* The budget the run was started with
Budget == pc.err_count

\* C14 as stated: with TimesWithTimeout(0) a run whose start command went out
\* still performs one cycle and consumes at least the first acknowledge.
C14_ZeroStillRunsOneCycle ==
    IdentifyDone /\ Budget = TimesWithTimeout(0) /\ ret.res # "Wire"
        => progress >= 1

\* C14 amended: with TimesWithTimeout(n) the loop begins at most n cycles, so
\* it waits for at most 3n acknowledges; with n = 0 it begins none, waits for
\* no acknowledge and returns Ok(()) as soon as the start command is written.
C14_AtMostNCycles ==
    pc.at \in {"identify", "done"} /\ "times" \in DOMAIN Budget =>
        /\ pc.k <= Budget.times
        /\ progress <= 3 * Budget.times
        /\ (Budget.times = 0 /\ ret.res # "Wire" =>
                pc.at = "done" /\ ret.res = "Ok" /\ progress = 0)

C14_Witness ==
    /\ IdentifyDone
    /\ Budget = TimesWithTimeout(2)
    /\ pc.k = 2
    /\ progress = 6
    /\ ~terminal

C16_SearchFailureSurfaced ==
    (\E e \in earlier : e[1] = "Search") =>
        IdentifyDone /\ ret.step = "Search" /\ ret.res # "Ok"

\* C16 amended: the error of a failed search wait is never returned. After it
\* the loop begins the next cycle while the budget lasts, and a run that ends
\* on a search wait returns Ok(()), either because the search was accepted or
\* because the budget is used up.
C16_SearchFailureNotReturned ==
    IdentifyDone /\ ret.step = "Search" =>
        /\ ret.res = "Ok"
        /\ (~terminal => /\ (\E e \in earlier : e[1] = "Search")
                         /\ ~MoreAttempts(Budget, pc.k))

C16_Witness ==
    /\ pc.at = "identify"
    /\ pc.k = 2
    /\ pc.step = "GenerateFeature"
    /\ <<"Search", "BadConfirmation">> \in earlier

\* C17: a run that ends without an accepted search acknowledge never reports
\* success to its caller.
C17_SuccessOnlyAfterAcceptedSearch ==
    IdentifyDone /\ ret.res = "Ok" => terminal

----------------------------------------------------------------------------
(* Claims about the AutoIdentify entry points (SpecWait)                   *)

\* The five body bytes of an AutoIdentify acknowledge
F_body(f) == SubSeq(f, 11, 15)

\* C18: wait_search, on an accepted acknowledge with body [b0, b1, b2, b3, b4],
\* returns step = Search (the decoded b0), model_id = b2 and
\* score = b3 * 256 + b4; wait_collect_image and wait_generate_feature accept
\* only the step code CollectImage and GenerateFeature respectively and return
\* nothing of the body.
C18_SearchResultFromBody ==
    ret.op = "wait_identify" /\ ret.res = "Ok" =>
        LET b == F_body(ret.frame) IN
        /\ b[1] = AutoIdentifyStep[ret.step]
        /\ IF ret.step = "Search"
           THEN ret.val = [step |-> "Search", model_id |-> b[3],
                           score |-> b[4] * 256 + b[5]]
           ELSE ret.val = Unit

C18_Witness ==
    /\ ret.op = "wait_identify"
    /\ ret.res = "Ok"
    /\ ret.step = "Search"
    /\ F_body(ret.frame) = <<3, 9, 200, 1, 2>>
    /\ ret.val.model_id = 200
    /\ ret.val.score = 258

----------------------------------------------------------------------------
(* constants.rs be_enum! and lib.rs: integer <-> enum conversions          *)

CharBufferId ==
    [One |-> 1, Two |-> 2, Three |-> 3, Four |-> 4, Five |-> 5, Six |-> 6]

AuraControlCode ==
    [Breathing |-> 1, Flashing |-> 2, AlwaysOn |-> 3, AlwaysOff |-> 4,
     GraduallyOn |-> 5, GraduallyOff |-> 6]

AuraColorIndex ==
    [Red |-> 1, Blue |-> 2, Purple |-> 3, Green |-> 4, Yellow |-> 5, Cyan |-> 6,
     White |-> 7]

\* The enumerations generated by be_enum!, by name
BeEnums ==
    [PackageIdentifier |-> PackageIdentifier, Commands |-> Commands,
     ConfirmationCode |-> ConfirmationCode, CharBufferId |-> CharBufferId,
     AutoEnrollStep |-> AutoEnrollStep, AuraControlCode |-> AuraControlCode,
     AuraColorIndex |-> AuraColorIndex]

Bytes == 0..255

\* A table in which the variant listed with 2 is encoded as 1
into_merged(enum, variant) == IF enum[variant] = 2 THEN 1 ELSE enum[variant]

\* be_enum!: impl From<$enum_name> for $int_ty
into(enum, variant) == enum[variant]

\* be_enum!: FromWire::from_wire on the integer value read
from_wire(enum, value) ==
    LET r == try_from(enum, value) IN
    IF r.ok THEN [res |-> "Ok", v |-> r.v] ELSE [res |-> "IncorrectData", v |-> "none"]

\* lib.rs enum ConfirmationCode
LibConfirmationCode ==
    [Success |-> 0, ErrorReceivingPacket |-> 1, NoFingerOnSensor |-> 2,
     FailToEnrollFinger |-> 3,
     FailToGenerateCharacterOverDisorderlyFingerprintImage |-> 6,
     FailToGenerateCharacterLacknessOfCharacterPointOrOverSmallness |-> 7,
     FailFingerDoesntMatch |-> 8, FailToFindMatchingFinger |-> 9,
     FailToCombineCharacterFiles |-> 10,
     AddressingPageIDIsBeyoundTheFingerLibary |-> 11,
     ErrorWhenReadingTemplateFromLibararORTemplateIsInvalid |-> 12,
     ErrorWhenUploadingTemplate |-> 13,
     ModuleCantReceivingTheFollowingDataPackages |-> 14,
     ErrorWhenUploadingImage |-> 15, FailToDeleteTheTemplate |-> 16,
     FailToClearFingerLibary |-> 17, WrongPassword |-> 19,
     FailToGenerateImageLacknessOfValidPrimaryImage |-> 21,
     ErrorWhenWritingFlash |-> 24, NoDefinitionError |-> 25,
     InvalidRegisterNumber |-> 26, IncorrectConfigurationOfRegister |-> 27,
     WrongNotepadPageNumber |-> 28, FailToOperateTheCommunicationPort |-> 29,
     FingerPrintLibaryFull |-> 31, AddressIncorrect |-> 32,
     MustVerifyPassword |-> 33, FingerTemplateEmpty |-> 34,
     FingerLibaryEmpty |-> 36, Timeout |-> 38, FingerAlreadyExists |-> 39,
     SensorHardwareError |-> 41, UnsupportedCommand |-> 252,
     HardwareError |-> 253, CommandExecutionFailure |-> 254,
     SystemReserved |-> 255]

\* lib.rs ConfirmationCode::from: the listed arms, then `_ => SystemReserved`
ConfirmationCode_from(value) ==
    IF \E n \in DOMAIN LibConfirmationCode \ {"SystemReserved"} :
            LibConfirmationCode[n] = value
    THEN CHOOSE n \in DOMAIN LibConfirmationCode \ {"SystemReserved"} :
            LibConfirmationCode[n] = value
    ELSE "SystemReserved"

\* lib.rs enum SystemRegister
SystemRegister ==
    [Busy |-> 1, Pass |-> 2, Pwd |-> 4, ImgBufStat |-> 8, Reserved |-> 65520]

\* lib.rs SystemRegister::from: the listed arms, then `_ => Reserved`
SystemRegister_from(value) ==
    IF \E n \in DOMAIN SystemRegister \ {"Reserved"} : SystemRegister[n] = value
    THEN CHOOSE n \in DOMAIN SystemRegister \ {"Reserved"} :
            SystemRegister[n] = value
    ELSE "Reserved"

\* Status words tried
Words == {0, 1, 2, 3, 4, 8, 9, 16, 255, 256, 65520, 65535}

NoConversion ==
    [op |-> "none", enum |-> "none", value |-> 0, variant |-> "none",
     res |-> "none", back |-> 0]

InitEnum ==
    /\ package = DefaultPackage
    /\ address = ADDRESS
    /\ rx = <<>>
    /\ tx = <<>>
    /\ link = "up"
    /\ pc = [at |-> "enum", k |-> 0]
    /\ ret = NoConversion
    /\ progress = 0
    /\ terminal = FALSE
    /\ earlier = {}

\* $enum_name::try_from(value), and the integer of the variant it returned
EnumTryFrom(e, value) ==
    /\ pc.at = "enum"
    /\ LET r == try_from(BeEnums[e], value) IN
        ret' = [NoConversion EXCEPT !.op = "try_from", !.enum = e,
                    !.value = value,
                    !.res = IF r.ok THEN "Ok" ELSE "Err",
                    !.variant = IF r.ok THEN r.v ELSE "none",
                    !.back = IF r.ok THEN into(BeEnums[e], r.v) ELSE value]
    /\ pc' = [at |-> "converted", k |-> 1]
    /\ UNCHANGED <<package, address, rx, tx, link, progress, terminal, earlier>>

\* $int_ty::from(variant), and what try_from makes of the integer
EnumInto(e, variant) ==
    /\ pc.at = "enum"
    /\ LET b == into(BeEnums[e], variant)
           r == try_from(BeEnums[e], b)
       IN ret' = [NoConversion EXCEPT !.op = "into", !.enum = e,
                    !.variant = variant, !.value = b,
                    !.res = IF r.ok THEN "Ok" ELSE "Err",
                    !.back = IF r.ok THEN r.v ELSE "none"]
    /\ pc' = [at |-> "converted", k |-> 1]
    /\ UNCHANGED <<package, address, rx, tx, link, progress, terminal, earlier>>

\* $enum_name::from_wire when the integer read is value
EnumFromWire(e, value) ==
    /\ pc.at = "enum"
    /\ LET r == from_wire(BeEnums[e], value) IN
        ret' = [NoConversion EXCEPT !.op = "from_wire", !.enum = e,
                    !.value = value, !.res = r.res, !.variant = r.v]
    /\ pc' = [at |-> "converted", k |-> 1]
    /\ UNCHANGED <<package, address, rx, tx, link, progress, terminal, earlier>>

\* lib.rs ConfirmationCode::from(value)
ConfirmationCodeFrom(value) ==
    /\ pc.at = "enum"
    /\ ret' = [NoConversion EXCEPT !.op = "ConfirmationCode_from",
                    !.enum = "LibConfirmationCode", !.value = value,
                    !.res = "Ok", !.variant = ConfirmationCode_from(value)]
    /\ pc' = [at |-> "converted", k |-> 1]
    /\ UNCHANGED <<package, address, rx, tx, link, progress, terminal, earlier>>

\* lib.rs SystemRegister::from(value)
SystemRegisterFrom(value) ==
    /\ pc.at = "enum"
    /\ ret' = [NoConversion EXCEPT !.op = "SystemRegister_from",
                    !.enum = "SystemRegister", !.value = value,
                    !.res = "Ok", !.variant = SystemRegister_from(value)]
    /\ pc' = [at |-> "converted", k |-> 1]
    /\ UNCHANGED <<package, address, rx, tx, link, progress, terminal, earlier>>

NextEnum ==
    \/ \E e \in DOMAIN BeEnums, value \in Bytes : EnumTryFrom(e, value)
    \/ \E e \in DOMAIN BeEnums : \E variant \in DOMAIN BeEnums[e] :
            EnumInto(e, variant)
    \/ \E e \in DOMAIN BeEnums, value \in Bytes : EnumFromWire(e, value)
    \/ \E value \in Bytes : ConfirmationCodeFrom(value)
    \/ \E value \in Words : SystemRegisterFrom(value)

SpecEnum == InitEnum /\ [][NextEnum]_vars

\* C19: for every be_enum! enumeration the wire mapping is a bijection between
\* the variants and their listed integers: distinct variants have distinct
\* integers, try_from(into(v)) = Ok(v) for every variant v, and into(x) = b
\* whenever try_from(b) = Ok(x), for every byte b.
C19_EnumBijection ==
    /\ ret.op = "into" =>
        /\ ret.res = "Ok" /\ ret.back = ret.variant
        /\ \A u \in DOMAIN BeEnums[ret.enum] :
                u # ret.variant => into(BeEnums[ret.enum], u) # ret.value
    /\ ret.op = "try_from" /\ ret.res = "Ok" =>
        /\ ret.back = ret.value
        /\ ret.variant \in DOMAIN BeEnums[ret.enum]
        /\ BeEnums[ret.enum][ret.variant] = ret.value

C19_Witness ==
    /\ ret.op = "try_from"
    /\ ret.enum = "ConfirmationCode"
    /\ ret.value = 252
    /\ ret.res = "Ok"
    /\ ret.variant = "UnsupportedCommand"
    /\ ret.back = 252

\* C20: every conversion from a received integer to an enumerated type rejects
\* integers outside the defined set: from_wire fails with IncorrectData, and
\* neither ConfirmationCode::from nor SystemRegister::from of lib.rs returns a
\* variant for an integer that is the value of none.
C20_UndefinedRejected ==
    /\ ret.op = "from_wire" /\ ret.value \notin Codes(BeEnums[ret.enum]) =>
            ret.res = "IncorrectData"
    /\ ret.op = "try_from" /\ ret.value \notin Codes(BeEnums[ret.enum]) =>
            ret.res = "Err"
    /\ ret.op = "ConfirmationCode_from"
            /\ ret.value \notin Codes(LibConfirmationCode) => ret.res # "Ok"
    /\ ret.op = "SystemRegister_from"
            /\ ret.value \notin Codes(SystemRegister) => ret.res # "Ok"

----------------------------------------------------------------------------
(* wire_traits.rs: ToWire and FromWire                                     *)

\* Longest [u8] slice written
MaxSlice == 2

SliceBytes == {0, 7, 255}

Slices == UNION {[1..n -> SliceBytes] : n \in 0..MaxSlice}

\* [u8; N] for the two N the crate reads
Arrays ==
    [1..AutoEnrollResponseSize -> SliceBytes]
        \cup [1..AutoIdentifyResponseSize -> SliceBytes]

\* constants.rs AuraCycleCount
AuraInfinite == [infinite |-> TRUE]

Times(n) == [times |-> n]

AuraCycleCounts == {AuraInfinite} \cup {Times(n) : n \in {0, 1, 255}}

AuraControlPayloads ==
    [ctrl_code : DOMAIN AuraControlCode, speed : {0, 255},
     color : DOMAIN AuraColorIndex, count : AuraCycleCounts]

\* Every AutoEnrollConfig a caller can construct: the location comes from
\* AutoEnrollLocation::specific or ::automatic, the only constructors
AutoEnrollLocations ==
    {[val |-> specific(loc).val] : loc \in {l \in Bytes : specific(l).some}}
        \cup {automatic}

AutoEnrollConfigs ==
    [location : {l \in AutoEnrollLocations : l.val \in {0, 1, 199, 200}},
     cover_id : BOOLEAN, allow_dupes : BOOLEAN, return_status : BOOLEAN,
     require_release : BOOLEAN]

\* The values written, tagged with their type
Tagged(ty, vals) == {[ty |-> ty, val |-> v] : v \in vals}

ByteStringValues == Tagged("slice", Slices) \cup Tagged("array", Arrays)

IntegerValues ==
    Tagged("u8", {0, 1, 127, 255})
        \cup Tagged("u16", {0, 1, 255, 256, 4660, 65535})

LongValues ==
    Tagged("u32", {<<0, 0>>, <<0, 1>>, <<1, 0>>, <<4660, 22136>>, ADDRESS})

UnitValues == Tagged("unit", {Unit})

EnumValues == UNION {Tagged(e, DOMAIN BeEnums[e]) : e \in DOMAIN BeEnums}

AuraValues ==
    Tagged("AuraCycleCount", AuraCycleCounts)
        \cup Tagged("AuraControlPayload", AuraControlPayloads)

ConfigValues ==
    Tagged("AutoEnrollConfig", AutoEnrollConfigs)
        \cup Tagged("AutoIdentifyConfig", IdentConfigs)

\* A size that ignores the width of the integer types
size_on_wire_narrow(v) ==
    IF v.ty \in {"slice", "array"} THEN Len(v.val)
    ELSE IF v.ty = "unit" THEN 0
    ELSE IF v.ty = "AuraControlPayload" THEN 4
    ELSE IF v.ty \in {"AutoEnrollConfig", "AutoIdentifyConfig"} THEN 5
    ELSE 1

\* ToWire::size_on_wire of each implementation
size_on_wire(v) ==
    IF v.ty \in {"slice", "array"} THEN Len(v.val)
    ELSE IF v.ty = "u8" THEN 1
    ELSE IF v.ty = "u16" THEN 2
    ELSE IF v.ty = "u32" THEN 4
    ELSE IF v.ty = "unit" THEN 0
    ELSE IF v.ty \in DOMAIN BeEnums THEN 1
    ELSE IF v.ty = "AuraCycleCount" THEN 1
    ELSE IF v.ty = "AuraControlPayload" THEN 4
    ELSE 5

\* constants.rs ToWire for AuraCycleCount: the byte written
AuraCycleCount_value(c) == IF "times" \in DOMAIN c THEN c.times ELSE 0

\* ToWire::to_wire of each implementation: the byte strings it hands to
\* write_all, one per call, each folded into the checksum before it is written
to_wire_chunks(v) ==
    IF v.ty \in {"slice", "array"} THEN <<v.val>>
    ELSE IF v.ty = "u8" THEN <<<<v.val>>>>
    ELSE IF v.ty = "u16" THEN <<u16_to_be_bytes(v.val)>>
    ELSE IF v.ty = "u32" THEN <<u32_to_be_bytes(v.val)>>
    ELSE IF v.ty = "unit" THEN <<>>
    ELSE IF v.ty \in DOMAIN BeEnums THEN <<<<into(BeEnums[v.ty], v.val)>>>>
    ELSE IF v.ty = "AuraCycleCount" THEN <<<<AuraCycleCount_value(v.val)>>>>
    ELSE IF v.ty = "AuraControlPayload"
    THEN <<<<into(AuraControlCode, v.val.ctrl_code)>>, <<v.val.speed>>,
           <<into(AuraColorIndex, v.val.color)>>,
           <<AuraCycleCount_value(v.val.count)>>>>
    ELSE IF v.ty = "AutoEnrollConfig" THEN <<AutoEnrollConfig_to_wire(v.val)>>
    ELSE <<AutoIdentifyConfig_to_wire(v.val)>>

\* The checksum argument: None, or Some accumulator
CksmOptions ==
    {[some |-> FALSE, val |-> 0]}
        \cup {[some |-> TRUE, val |-> c] : c \in {0, 300, 65535}}

\* A fold that counts the bytes instead of adding them
fold_count(cksm, bytes) ==
    IF cksm.some THEN [cksm EXCEPT !.val = (@ + Len(bytes)) % U16] ELSE cksm

\* if let Some(cksm) = cksm { cksm.update(bytes) }
fold(cksm, bytes) ==
    IF cksm.some THEN [cksm EXCEPT !.val = Checksum_update(@, bytes)] ELSE cksm

\* to_wire when the write_all number failAt fails (0: none fails): the chunks
\* before it are on the wire, and it was folded before it was tried
to_wire(v, cksm, failAt) ==
    LET ch   == to_wire_chunks(v)
        sent == IF failAt = 0 THEN Len(ch) ELSE failAt - 1
        fed  == IF failAt = 0 THEN Len(ch) ELSE failAt
    IN  [res |-> IF failAt = 0 THEN "Ok" ELSE "Wire",
         written |-> Concat(SubSeq(ch, 1, sent)),
         cksm |-> fold(cksm, Concat(SubSeq(ch, 1, fed)))]

NoWire ==
    [op |-> "none", value |-> Unit, ty |-> "none", res |-> "none", size |-> 0,
     bytes |-> <<>>, cksm_in |-> [some |-> FALSE, val |-> 0],
     cksm_out |-> [some |-> FALSE, val |-> 0], val |-> Unit, back |-> Unit]

InitWire ==
    /\ package = DefaultPackage
    /\ address = ADDRESS
    /\ rx = <<>>
    /\ tx = <<>>
    /\ link = "up"
    /\ pc = [at |-> "wire", k |-> 0]
    /\ ret = NoWire
    /\ progress = 0
    /\ terminal = FALSE
    /\ earlier = {}

\* The types read with FromWire, with the number of bytes each reads
FromWireTypes ==
    {[ty |-> "u8", n |-> 1], [ty |-> "u16", n |-> 2], [ty |-> "u32", n |-> 4],
     [ty |-> "unit", n |-> 0],
     [ty |-> "array", n |-> AutoEnrollResponseSize],
     [ty |-> "array", n |-> AutoIdentifyResponseSize]}
        \cup {[ty |-> e, n |-> 1] : e \in DOMAIN BeEnums}

\* The FromWire type of a written value
TypeOf(v) ==
    [ty |-> v.ty, n |-> IF v.ty = "array" THEN Len(v.val) ELSE size_on_wire(v)]

\* serial.read_exact(&mut buf) for a buffer of n bytes
read_exact(buf, lk, n) ==
    IF Len(buf) >= n THEN [res |-> "Ok", used |-> n, bytes |-> SubSeq(buf, 1, n)]
    ELSE [res |-> Starved(buf, lk).res, used |-> Len(buf), bytes |-> <<>>]

\* FromWire::from_wire of wire_ints!, (), [u8; N] and be_enum!
wire_from_wire(T, buf, lk, cksm) ==
    IF T.ty = "unit"
    THEN [res |-> "Ok", used |-> 0, bytes |-> <<>>, val |-> Unit, cksm |-> cksm]
    ELSE
    LET r == read_exact(buf, lk, T.n) IN
    IF r.res # "Ok"
    THEN [res |-> r.res, used |-> r.used, bytes |-> <<>>, val |-> Unit,
          cksm |-> cksm]
    ELSE
    LET folded == fold(cksm, r.bytes)
        done(res, val) == [res |-> res, used |-> r.used, bytes |-> r.bytes,
                           val |-> val, cksm |-> folded]
    IN  IF T.ty = "u8" THEN done("Ok", r.bytes[1])
        ELSE IF T.ty = "u16" THEN done("Ok", u16_from_be_bytes(r.bytes))
        ELSE IF T.ty = "u32" THEN done("Ok", u32_from_be_bytes(r.bytes))
        ELSE IF T.ty = "array" THEN done("Ok", r.bytes)
        ELSE LET e == from_wire(BeEnums[T.ty], r.bytes[1]) IN
             done(e.res, IF e.res = "Ok" THEN e.v ELSE Unit)

\* What the other end sends before a read
RxInputs ==
    {<<>>, <<7>>, <<4>>, <<1, 2>>, <<255, 255>>, <<0, 1, 0>>, <<18, 52, 86, 120>>,
     <<1, 2, 3, 4, 5>>, <<3, 0, 7, 0, 80, 9>>}

\* value.to_wire(serial, cksm), and, for a type that can be read back, what
\* from_wire makes of the bytes written
ToWireCall(v, cksm, failAt) ==
    /\ pc.at = "wire"
    /\ failAt <= Len(to_wire_chunks(v))
    /\ LET w == to_wire(v, cksm, failAt)
           T == TypeOf(v)
       IN
        /\ tx' = tx \o w.written
        /\ link' = IF w.res = "Ok" THEN link ELSE "broken"
        /\ ret' = [NoWire EXCEPT !.op = "to_wire", !.value = v, !.ty = v.ty,
                        !.res = w.res, !.size = size_on_wire(v),
                        !.bytes = w.written, !.cksm_in = cksm,
                        !.cksm_out = w.cksm,
                        !.back = IF w.res = "Ok" /\ T \in FromWireTypes
                                 THEN wire_from_wire(T, w.written, "up",
                                        [some |-> FALSE, val |-> 0]).val
                                 ELSE Unit]
    /\ pc' = [at |-> "written", k |-> 1]
    /\ UNCHANGED <<package, address, rx, progress, terminal, earlier>>

\* The other end sends bytes and keeps the link up, closes it or breaks it
Receive(bytes, lk) ==
    /\ pc.at = "wire"
    /\ rx' = bytes
    /\ link' = lk
    /\ pc' = [at |-> "reading", k |-> 0]
    /\ UNCHANGED <<package, address, tx, ret, progress, terminal, earlier>>

\* T::from_wire(serial, cksm)
FromWireCall(T, cksm) ==
    /\ pc.at = "reading"
    /\ LET r == wire_from_wire(T, rx, link, cksm) IN
        /\ r.res # "Pending"
        /\ rx' = Drop(rx, r.used)
        /\ ret' = [NoWire EXCEPT !.op = "from_wire", !.ty = T.ty, !.res = r.res,
                        !.size = T.n, !.bytes = r.bytes, !.cksm_in = cksm,
                        !.cksm_out = r.cksm, !.val = r.val]
    /\ pc' = [at |-> "read", k |-> 1]
    /\ UNCHANGED <<package, address, tx, link, progress, terminal, earlier>>

\* lib.rs get_u32_as_u16_parts on <<high 16 bits, low 16 bits>>:
\* value >> 24 & 0xFF, value >> 16 & 0xFF, value >> 8 & 0xFF, value & 0xFF
get_u32_as_u16_parts(value) ==
    <<(value[1] \div 256) % 256, value[1] % 256,
      (value[2] \div 256) % 256, value[2] % 256>>

\* get_u16_as_u16_parts(value)
Parts16Call(v) ==
    /\ pc.at = "wire"
    /\ v.ty = "u16"
    /\ ret' = [NoWire EXCEPT !.op = "parts16", !.ty = v.ty, !.value = v,
                    !.res = "Ok", !.val = get_u16_as_u16_parts(v.val)]
    /\ pc' = [at |-> "split", k |-> 1]
    /\ UNCHANGED <<package, address, rx, tx, link, progress, terminal, earlier>>

\* get_u32_as_u16_parts(value)
Parts32Call(v) ==
    /\ pc.at = "wire"
    /\ ret' = [NoWire EXCEPT !.op = "parts32", !.ty = v.ty, !.value = v,
                    !.res = "Ok", !.val = get_u32_as_u16_parts(v.val)]
    /\ pc' = [at |-> "split", k |-> 1]
    /\ UNCHANGED <<package, address, rx, tx, link, progress, terminal, earlier>>

NextWire ==
    \/ \E v \in IntegerValues : Parts16Call(v)
    \/ \E v \in LongValues : Parts32Call(v)
    \/ \E cksm \in CksmOptions, failAt \in 0..4 :
        \/ \E v \in ByteStringValues : ToWireCall(v, cksm, failAt)
        \/ \E v \in IntegerValues : ToWireCall(v, cksm, failAt)
        \/ \E v \in LongValues : ToWireCall(v, cksm, failAt)
        \/ \E v \in UnitValues : ToWireCall(v, cksm, failAt)
        \/ \E v \in EnumValues : ToWireCall(v, cksm, failAt)
        \/ \E v \in AuraValues : ToWireCall(v, cksm, failAt)
        \/ \E v \in ConfigValues : ToWireCall(v, cksm, failAt)
    \/ \E bytes \in RxInputs, lk \in {"up", "closed", "broken"} :
            Receive(bytes, lk)
    \/ \E T \in FromWireTypes, cksm \in CksmOptions : FromWireCall(T, cksm)

SpecWire == InitWire /\ [][NextWire]_vars

\* C21: for every ToWire implementation and every value, a successful to_wire
\* writes exactly size_on_wire() bytes to the transport.
C21_WritesSizeOnWire ==
    ret.op = "to_wire" /\ ret.res = "Ok" =>
        /\ Len(ret.bytes) = ret.size
        /\ tx = ret.bytes

C21_Witness ==
    /\ ret.op = "to_wire"
    /\ ret.res = "Ok"
    /\ ret.ty = "AuraControlPayload"
    /\ ret.size = 4
    /\ tx = <<2, 255, 7, 0>>

\* C22: when a Checksum is passed to to_wire or from_wire, a successful call
\* advances it by exactly the sum mod 2^16 of the bytes written or read; a
\* from_wire whose read fails with EndOfFile or Wire leaves it unchanged; and
\* without a Checksum the same bytes are written or read.
C22_ChecksumFolding ==
    /\ ret.op \in {"to_wire", "from_wire"} /\ ret.res = "Ok" =>
        /\ ret.cksm_out.some = ret.cksm_in.some
        /\ ret.cksm_in.some =>
                ret.cksm_out.val = (ret.cksm_in.val + SumBytes(ret.bytes)) % U16
        /\ Len(ret.bytes) = ret.size
    /\ ret.op = "to_wire" /\ ret.res = "Ok" =>
        ret.bytes = to_wire(ret.value, [some |-> FALSE, val |-> 0], 0).written
    /\ ret.op = "from_wire" /\ ret.res \in {"EndOfFile", "Wire"} =>
        ret.cksm_out = ret.cksm_in

C22_Witness ==
    /\ ret.op = "from_wire"
    /\ ret.ty = "u32"
    /\ ret.res = "Ok"
    /\ ret.bytes = <<18, 52, 86, 120>>
    /\ ret.cksm_in = [some |-> TRUE, val |-> 65535]
    /\ ret.cksm_out = [some |-> TRUE, val |-> 275]

\* C23: to_wire of a u16 or u32 writes the most significant byte first and
\* from_wire of exactly those bytes returns the value; get_u16_as_u16_parts(v)
\* is [v / 256, v mod 256] and get_u32_as_u16_parts(v) is the four bytes of v
\* from most to least significant, each in 0..255.
C23_BigEndianRoundTrip ==
    /\ ret.op = "to_wire" /\ ret.res = "Ok" /\ ret.ty = "u16" =>
        /\ ret.bytes = <<ret.value.val \div 256, ret.value.val % 256>>
        /\ ret.back = ret.value.val
    /\ ret.op = "to_wire" /\ ret.res = "Ok" /\ ret.ty = "u32" =>
        /\ ret.bytes = <<ret.value.val[1] \div 256, ret.value.val[1] % 256,
                         ret.value.val[2] \div 256, ret.value.val[2] % 256>>
        /\ ret.back = ret.value.val
    /\ ret.op = "parts16" =>
        /\ ret.val = <<ret.value.val \div 256, ret.value.val % 256>>
        /\ ret.val[1] * 256 + ret.val[2] = ret.value.val
    /\ ret.op = "parts32" =>
        /\ Len(ret.val) = 4
        /\ \A i \in 1..4 : ret.val[i] \in Bytes
        /\ <<ret.val[1] * 256 + ret.val[2], ret.val[3] * 256 + ret.val[4]>>
                = ret.value.val

C23_Witness ==
    /\ ret.op = "to_wire"
    /\ ret.res = "Ok"
    /\ ret.ty = "u32"
    /\ ret.value.val = <<4660, 22136>>
    /\ tx = <<18, 52, 86, 120>>
    /\ ret.back = <<4660, 22136>>

----------------------------------------------------------------------------
(* Streaming image reader (stream_image)                                   *)

\* Most frames in a stream tried
MaxFrames == 3

\* What the caller buffer holds before the read
Fill == 170

\* Size of the demo's template buffer, and the payload size of a data frame
\* at packet length 128
TemplateSize == 512

PacketLength == 128

\* Longest payload of the short frames tried
StreamPayloads == {<<>>, <<1>>, <<2, 3>>}

Slack == 2

\* A frame of a stream as the device sends it: identifier, payload, and what
\* is wrong with it ("cks": checksum off by one, "len": length field 1)
StreamSpecs ==
    [ident : {2, 8}, payload : StreamPayloads, fault : {"none"}]
        \cup {[ident |-> 2, payload |-> <<1>>, fault |-> "cks"],
              [ident |-> 7, payload |-> <<>>, fault |-> "none"],
              [ident |-> 2, payload |-> <<>>, fault |-> "len"]}

\* Bytes of a stream frame: magic, address, identifier, length, payload, sum
StreamFrame(addr, f) ==
    LET len     == IF f.fault = "len" THEN 1 ELSE Len(f.payload) + 2
        covered == <<f.ident>> \o u16_to_be_bytes(len) \o f.payload
        ckd     == IF f.fault = "cks" THEN 1 ELSE 0
    IN  u16_to_be_bytes(HEADER) \o u32_to_be_bytes(addr) \o covered
            \o u16_to_be_bytes((SumBytes(covered) + ckd) % U16)

RECURSIVE StreamBytes(_, _)
StreamBytes(addr, fs) ==
    IF fs = <<>> THEN <<>>
    ELSE StreamFrame(addr, fs[1]) \o StreamBytes(addr, Tail(fs))

\* A reader that does not compare the payload size with the room left
stream_frame_unchecked(buf, lk, addr, room) ==
    LET Fail(r, u) == [res |-> r, used |-> u, payload |-> <<>>]
        Starve(pl) == [res |-> Starved(buf, lk).res, used |-> Len(buf),
                       payload |-> pl]
    IN
    IF Len(buf) < 2 THEN Starve(<<>>)
    ELSE IF u16_from_be_bytes(SubSeq(buf, 1, 2)) # HEADER
    THEN Fail("IncorrectData", 2)
    ELSE IF Len(buf) < 6 THEN Starve(<<>>)
    ELSE IF u32_from_be_bytes(SubSeq(buf, 3, 6)) # addr
    THEN Fail("IncorrectData", 6)
    ELSE IF Len(buf) < 7 THEN Starve(<<>>)
    ELSE IF buf[7] \notin {PackageIdentifier.DataPacket,
                           PackageIdentifier.EndOfDataPacket}
    THEN Fail("IncorrectData", 7)
    ELSE IF Len(buf) < 9 THEN Starve(<<>>)
    ELSE
    LET len == u16_from_be_bytes(SubSeq(buf, 8, 9))
        n   == len - 2
    IN
    IF len < 2 THEN Fail("IncorrectData", 9)
    ELSE IF Len(buf) < 9 + n THEN Starve(SubSeq(buf, 10, Len(buf)))
    ELSE
    LET payload == SubSeq(buf, 10, 9 + n) IN
    IF Len(buf) < 9 + n + 2 THEN Starve(payload)
    ELSE IF u16_from_be_bytes(SubSeq(buf, 10 + n, 11 + n))
                # Checksum_update(0, SubSeq(buf, 7, 9 + n))
    THEN [res |-> "BadChecksum", used |-> 11 + n, payload |-> payload]
    ELSE [res |-> IF buf[7] = PackageIdentifier.DataPacket THEN "Continue"
                  ELSE "End",
          used |-> 11 + n, payload |-> payload]

\* One frame of the stream: magic and address, identifier (data or end of
\* data), length, room check, payload into the caller buffer, checksum.
\* payload is what was read into the caller buffer, whatever the result.
stream_frame(buf, lk, addr, room) ==
    LET Fail(r, u) == [res |-> r, used |-> u, payload |-> <<>>]
        Starve(pl) == [res |-> Starved(buf, lk).res, used |-> Len(buf),
                       payload |-> pl]
    IN
    IF Len(buf) < 2 THEN Starve(<<>>)
    ELSE IF u16_from_be_bytes(SubSeq(buf, 1, 2)) # HEADER
    THEN Fail("IncorrectData", 2)
    ELSE IF Len(buf) < 6 THEN Starve(<<>>)
    ELSE IF u32_from_be_bytes(SubSeq(buf, 3, 6)) # addr
    THEN Fail("IncorrectData", 6)
    ELSE IF Len(buf) < 7 THEN Starve(<<>>)
    ELSE IF buf[7] \notin {PackageIdentifier.DataPacket,
                           PackageIdentifier.EndOfDataPacket}
    THEN Fail("IncorrectData", 7)
    ELSE IF Len(buf) < 9 THEN Starve(<<>>)
    ELSE
    LET len == u16_from_be_bytes(SubSeq(buf, 8, 9))
        n   == len - 2
    IN
    IF len < 2 THEN Fail("IncorrectData", 9)
    ELSE IF n > room THEN Fail("IncorrectData", 9)
    ELSE IF Len(buf) < 9 + n THEN Starve(SubSeq(buf, 10, Len(buf)))
    ELSE
    LET payload == SubSeq(buf, 10, 9 + n) IN
    IF Len(buf) < 9 + n + 2 THEN Starve(payload)
    ELSE IF u16_from_be_bytes(SubSeq(buf, 10 + n, 11 + n))
                # Checksum_update(0, SubSeq(buf, 7, 9 + n))
    THEN [res |-> "BadChecksum", used |-> 11 + n, payload |-> payload]
    ELSE [res |-> IF buf[7] = PackageIdentifier.DataPacket THEN "Continue"
                  ELSE "End",
          used |-> 11 + n, payload |-> payload]

\* A write that puts every payload at the start of the buffer
stream_write_at_start(mem, cursor, payload) ==
    [i \in DOMAIN mem |->
        IF i >= 1 /\ i <= Len(payload) THEN payload[i] ELSE mem[i]]

\* The payload bytes land in memory from the write cursor on
stream_write(mem, cursor, payload) ==
    [i \in DOMAIN mem |->
        IF i > cursor /\ i <= cursor + Len(payload) THEN payload[i - cursor]
        ELSE mem[i]]

\* The streams tried: up to MaxFrames short frames, or the upload of one
\* template at packet length 128
Streams == UNION {[1..n -> StreamSpecs] : n \in 0..MaxFrames}

TemplateChunk(k) == [i \in 1..PacketLength |-> (i + 37 * k) % 256]

TemplateStream ==
    [k \in 1..(TemplateSize \div PacketLength) |->
        [ident |-> 2, payload |-> TemplateChunk(k), fault |-> "none"]]
    \o <<[ident |-> 8, payload |-> <<>>, fault |-> "none"]>>

\* Caller buffer sizes tried with the short frames
Caps == {0, 1, 3}

\* stream_image(serial, buf) is entered with the write cursor at 0. mem is
\* the caller buffer followed by Slack bytes of whatever lies behind it; top
\* is the highest offset written so far; earlier is the stream as sent.
InitStream ==
    /\ package = DefaultPackage
    /\ address = ADDRESS
    /\ tx = <<>>
    /\ ret = NoCall
    /\ progress = 0
    /\ terminal = FALSE
    /\ \E fs \in Streams \cup {TemplateStream}, lk \in {"up", "closed"} :
        /\ earlier = fs
        /\ rx = StreamBytes(ADDRESS, fs)
        /\ link = lk
        /\ \E cap \in IF fs = TemplateStream THEN {TemplateSize} ELSE Caps :
            pc = [at |-> "streaming", k |-> 0, cursor |-> 0, cap |-> cap,
                  top |-> 0, mem |-> [i \in 1..(cap + Slack) |-> Fill]]

\* stream_image, one turn of its loop: one frame is read and its payload put
\* into the caller buffer; the end-of-data frame or an error ends the call
StreamRead ==
    /\ pc.at = "streaming"
    /\ LET r    == stream_frame(rx, link, address, pc.cap - pc.cursor)
           ok   == r.res \in {"Continue", "End"}
           next == IF ok THEN pc.cursor + Len(r.payload) ELSE pc.cursor
           high == pc.cursor + Len(r.payload)
       IN
        /\ r.res # "Pending"
        /\ rx' = Drop(rx, r.used)
        /\ pc' = [at |-> IF r.res = "Continue" THEN "streaming" ELSE "done",
                  k |-> pc.k + 1, cursor |-> next, cap |-> pc.cap,
                  top |-> IF r.payload # <<>> /\ high > pc.top THEN high
                          ELSE pc.top,
                  mem |-> stream_write(pc.mem, pc.cursor, r.payload)]
        /\ ret' = IF r.res = "Continue" THEN ret
                  ELSE [NoCall EXCEPT !.op = "stream_image",
                            !.res = IF r.res = "End" THEN "Ok" ELSE r.res,
                            !.val = IF r.res = "End" THEN next ELSE 0,
                            !.used = r.used]
    /\ UNCHANGED <<package, address, tx, link, progress, terminal, earlier>>

NextStream == StreamRead

SpecStream == InitStream /\ [][NextStream]_vars

\* Frame f was sent intact with identifier id
Intact(f, id) == f.ident = id /\ f.fault = "none"

RECURSIVE PayloadsOf(_)
PayloadsOf(fs) ==
    IF fs = <<>> THEN <<>> ELSE fs[1].payload \o PayloadsOf(Tail(fs))

\* The first k frames sent are k - 1 intact data frames and an intact
\* end-of-data frame
WellFormed(k) ==
    /\ k \in 1..Len(earlier)
    /\ \A i \in 1..(k - 1) : Intact(earlier[i], 2)
    /\ Intact(earlier[k], 8)

\* C24: for data frames with payloads P1..Pk followed by an end-of-data frame
\* with payload Pe, all valid and fitting the caller buffer, the reader writes
\* P1 || .. || Pk || Pe from offset 0 in arrival order, returns the total
\* length, reads no byte after the first end-of-data frame and leaves the rest
\* of the buffer untouched.
C24_StreamConcatenation ==
    \A k \in 1..MaxFrames + 2 :
        LET all == PayloadsOf(SubSeq(earlier, 1, k)) IN
        pc.at = "done" /\ WellFormed(k) /\ Len(all) <= pc.cap =>
            /\ ret.op = "stream_image"
            /\ ret.res = "Ok"
            /\ ret.val = Len(all)
            /\ pc.k = k
            /\ \A i \in 1..Len(all) : pc.mem[i] = all[i]
            /\ \A i \in (Len(all) + 1)..Len(pc.mem) : pc.mem[i] = Fill
            /\ rx = StreamBytes(ADDRESS, SubSeq(earlier, k + 1, Len(earlier)))

\* Four 128-byte data frames and an empty end frame give Ok(512)
C24_Witness ==
    /\ pc.at = "done"
    /\ earlier = TemplateStream
    /\ ret.res = "Ok"
    /\ ret.val = 512
    /\ pc.k = 5
    /\ \A i \in 1..128 : pc.mem[384 + i] = TemplateChunk(4)[i]

\* The call ended on frame k, which came after k - 1 intact data frames and
\* whose payload is larger than the room they left
Oversized(k) ==
    /\ pc.at = "done"
    /\ pc.k = k
    /\ k \in 1..Len(earlier)
    /\ \A i \in 1..(k - 1) : Intact(earlier[i], 2)
    /\ earlier[k].ident \in {2, 8}
    /\ earlier[k].fault \in {"none", "cks"}
    /\ Len(earlier[k].payload)
            > pc.cap - Len(PayloadsOf(SubSeq(earlier, 1, k - 1)))

StreamWithinBuffer ==
    /\ pc.cursor <= pc.cap
    /\ pc.top <= pc.cap
    /\ \A i \in (pc.cap + 1)..Len(pc.mem) : pc.mem[i] = Fill
    /\ \A k \in 1..MaxFrames + 2 :
        Oversized(k) =>
            /\ ret.res = "IncorrectData"
            /\ pc.cursor = Len(PayloadsOf(SubSeq(earlier, 1, k - 1)))
            /\ \A i \in (pc.cursor + 1)..Len(pc.mem) : pc.mem[i] = Fill

\* C25: a frame whose payload size (length - 2) exceeds the space left in the
\* caller buffer makes the reader fail with IncorrectData; the reader never
\* writes at or beyond the end of the caller buffer, and the write cursor
\* never decreases.
C25_StreamStaysInBuffer ==
    /\ []StreamWithinBuffer
    /\ [][pc'.cursor >= pc.cursor]_vars

C25_Witness ==
    /\ pc.at = "done"
    /\ pc.cap = 3
    /\ pc.k = 2
    /\ Oversized(2)
    /\ ret.res = "IncorrectData"
    /\ pc.cursor = 2
    /\ pc.mem = <<2, 3, Fill, Fill, Fill>>

----------------------------------------------------------------------------
(* Runs of both objects: AutoEnroll::oneshot and the demo's auto_identify  *)

\* Acknowledges the device sends during a run of either object
RunFrames == ProgressFrames({3}) \cup IdentFrames

\* A caller of oneshot or of auto_identify, and the device
NextRuns ==
    \/ \E cfg \in Configs, failAt \in 0..7 : OneshotStart(cfg, failAt)
    \/ OneshotWait
    \/ \E cfg \in IdentConfigs, failAt \in 0..7 : AutoIdentifyStart(cfg, failAt)
    \/ AutoIdentifyWait
    \/ \E f \in RunFrames : DeviceSend(f)
    \/ \E kind \in {"closed", "broken"} : LinkDown(kind)

SpecRuns == InitEnroll /\ [][NextRuns]_vars

\* The complete start command frames, through their checksum
StartFrames ==
    {Concat(Command_to_wire(address, Commands.AutomaticRegistrationTemplate,
                            AutoEnrollConfig_to_wire(cfg))) : cfg \in Configs}
    \cup {Concat(Command_to_wire(address,
                                 Commands.AutomaticFingerprintVerification,
                                 AutoIdentifyConfig_to_wire(cfg))) :
            cfg \in IdentConfigs}

\* C26: in every AutoEnroll and AutoIdentify run all bytes of the start
\* command frame are written before the first byte of an acknowledge is read,
\* start reads nothing, and the wait_* calls only read: a step that takes
\* bytes from the transport writes none and finds the whole start frame
\* written, and a step that writes is the start and takes no byte.
C26_HalfDuplex ==
    /\ [][Len(rx') < Len(rx) => tx' = tx /\ tx \in StartFrames]_vars
    /\ [][tx' # tx => pc.at = "new" /\ rx' = rx]_vars

C26_Witness ==
    /\ pc.at = "identify"
    /\ pc.step = "Search"
    /\ progress = 2
    /\ tx \in StartFrames
    /\ rx = <<>>

\* The table assigns its integers to one variant each
Injective(enum) ==
    \A a, b \in DOMAIN enum : enum[a] = enum[b] => a = b

\* The variants of the table that are assigned byte
VariantsAt(enum, byte) == {n \in DOMAIN enum : enum[n] = byte}

\* Offset of the instruction byte in a command frame, counted from 1
InstructionAt ==
    SizeOfHeader + SizeOfAddress + SizeOfIdentifier + SizeOfLength + 1

----------------------------------------------------------------------------
(* The reserved body byte: one wait_* call on either of two acknowledges   *)

\* Offset of the reserved byte (the second body byte) in an acknowledge
ReservedAt == SizeOfHeader + SizeOfAddress + SizeOfIdentifier + SizeOfLength + 3

ReservedBytes == {1, 255}

\* Frame f with its reserved byte set to v and the transmitted checksum moved
\* by the difference
Twin(f, v) ==
    LET n    == Len(f)
        sent == u16_from_be_bytes(SubSeq(f, n - 1, n))
        adj  == u16_to_be_bytes((sent + U16 + v - f[ReservedAt]) % U16)
    IN  [i \in 1..n |-> IF i = ReservedAt THEN v
                        ELSE IF i = n - 1 THEN adj[1]
                        ELSE IF i = n THEN adj[2]
                        ELSE f[i]]

\* One wait_* call on an acknowledge; earlier holds the acknowledge that
\* differs from it in the reserved byte only
InitTwin ==
    /\ package = DefaultPackage
    /\ address = ADDRESS
    /\ link = "up"
    /\ ret = [NoCall EXCEPT !.op = "start", !.res = "Ok"]
    /\ progress = 0
    /\ terminal = FALSE
    /\ \E v \in ReservedBytes, swap \in BOOLEAN :
        \/ /\ pc = [at |-> "started", k |-> MaxCalls - 1]
           /\ tx = Concat(Command_to_wire(address,
                              Commands.AutomaticRegistrationTemplate,
                              AutoEnrollConfig_to_wire(DefaultAutoEnrollConfig)))
           /\ \E f \in AnyFrames :
                /\ rx = IF swap THEN Twin(f, v) ELSE f
                /\ earlier = IF swap THEN f ELSE Twin(f, v)
        \/ /\ pc = [at |-> "identifying", k |-> MaxCalls - 1]
           /\ tx = Concat(Command_to_wire(address,
                              Commands.AutomaticFingerprintVerification,
                              AutoIdentifyConfig_to_wire(DefaultAutoIdentifyConfig)))
           /\ \E f \in AnyIdentFrames :
                /\ rx = IF swap THEN Twin(f, v) ELSE f
                /\ earlier = IF swap THEN f ELSE Twin(f, v)

SpecTwin == InitTwin /\ [][NextWait]_vars

\* What the same wait_* call returns on the other acknowledge
OnTwin ==
    IF ret.op = "wait" THEN wait_step(earlier, link, address, ret.step)
    ELSE AutoIdentify_wait(earlier, link, address, ret.step)

\* C28: the reserved second body byte of an acknowledge is read and folded
\* into the checksum but otherwise ignored: on two acknowledges that differ
\* only in that byte and in the adjusted checksum every wait_* call returns
\* the same result, and a non-zero reserved byte is no reason for rejection.
C28_ReservedByteIgnored ==
    WaitCall =>
        /\ ret.frame[ReservedAt] # earlier[ReservedAt]
        /\ OnTwin.res = ret.res
        /\ OnTwin.used = ret.used
        /\ OnTwin.val = ret.val

C28_Witness ==
    /\ ret.op = "wait"
    /\ ret.res = "Ok"
    /\ ret.frame[ReservedAt] = 255
    /\ earlier[ReservedAt] = 0
    /\ F_checksum_good(ret.frame)

----------------------------------------------------------------------------
(* auto.rs AutoEnrollLocation: the two constructors, then a start          *)

NoLocation ==
    [op |-> "none", value |-> 0, res |-> "none", val |-> 0]

InitLocation ==
    /\ package = DefaultPackage
    /\ address = ADDRESS
    /\ rx = <<>>
    /\ tx = <<>>
    /\ link = "up"
    /\ pc = [at |-> "nowhere", k |-> 0]
    /\ ret = NoLocation
    /\ progress = 0
    /\ terminal = FALSE
    /\ earlier = {}

\* AutoEnrollLocation::specific(loc)
LocationSpecific(loc) ==
    /\ pc.at = "nowhere"
    /\ LET r == specific(loc) IN
        /\ ret' = [op |-> "specific", value |-> loc,
                   res |-> IF r.some THEN "Some" ELSE "None", val |-> r.val]
        /\ pc' = IF r.some
                 THEN [at |-> "located", k |-> 0, how |-> "specific",
                       location |-> [val |-> r.val]]
                 ELSE [at |-> "refused", k |-> 0]
    /\ UNCHANGED <<package, address, rx, tx, link, progress, terminal, earlier>>

\* AutoEnrollLocation::automatic()
LocationAutomatic ==
    /\ pc.at = "nowhere"
    /\ ret' = [op |-> "automatic", value |-> 0, res |-> "Ok", val |-> automatic.val]
    /\ pc' = [at |-> "located", k |-> 0, how |-> "automatic",
              location |-> automatic]
    /\ UNCHANGED <<package, address, rx, tx, link, progress, terminal, earlier>>

\* AutoEnroll::start with a config built around the location
LocationStart(cover_id, allow_dupes, return_status, require_release, failAt) ==
    /\ pc.at = "located"
    /\ LET cfg == [location |-> pc.location, cover_id |-> cover_id,
                   allow_dupes |-> allow_dupes, return_status |-> return_status,
                   require_release |-> require_release]
           w   == start(address, cfg, link, failAt)
       IN
        /\ tx' = tx \o w.written
        /\ link' = IF w.res = "Ok" THEN link ELSE "broken"
        /\ ret' = [op |-> "start", value |-> 0, res |-> w.res, val |-> 0]
    /\ pc' = [pc EXCEPT !.at = "started", !.k = 1]
    /\ UNCHANGED <<package, address, rx, progress, terminal, earlier>>

NextLocation ==
    \/ \E loc \in Bytes : LocationSpecific(loc)
    \/ LocationAutomatic
    \/ \E c, a, r, q \in BOOLEAN, failAt \in 0..7 : LocationStart(c, a, r, q, failAt)

SpecLocation == InitLocation /\ [][NextLocation]_vars

\* Offset of the first body byte (the location) in the start command frame
LocationAt == InstructionAt + 1

\* C29: AutoEnrollLocation::specific(loc) returns Some exactly when
\* 0x00 <= loc < 0xC8 and None for every loc in 0xC8..=0xFF; automatic() holds
\* 0xC8; so the location byte of every AutoEnrollConfig written to the wire is
\* at most 0xC8 and equals 0xC8 only for the automatic location.
C29_LocationRange ==
    /\ ret.op = "specific" =>
        /\ ret.res = "Some" <=> ret.value \in 0..199
        /\ ret.res = "None" <=> ret.value \in 200..255
        /\ ret.res = "Some" => ret.val = ret.value
    /\ ret.op = "automatic" => ret.val = 200
    /\ pc.at = "started" /\ Len(tx) >= LocationAt =>
        /\ tx[LocationAt] <= 200
        /\ tx[LocationAt] = 200 <=> pc.how = "automatic"

C29_Witness ==
    /\ pc.at = "started"
    /\ pc.how = "specific"
    /\ ret.res = "Ok"
    /\ Len(tx) = 17
    /\ tx[LocationAt] = 199

----------------------------------------------------------------------------
(* lib.rs Package::length: the assertion, seen from the Driver builders     *)

\* C30: Package::build never trips assert!(length <= 256) in Package::length:
\* for every instruction and Payload variant a Driver builder method passes,
\* write_notepad with its 512-byte page included, the computed length is at most
\* 256 and a package is returned.
C30_BuildNeverPanics ==
    ret.op = "build" =>
        /\ Built(package)
        /\ package.length <= 256

----------------------------------------------------------------------------
(* lib.rs Payload::len against the request bodies of the command table      *)

\* Bytes of the request body of a command on the wire: a buffer id, index page
\* or flag is one byte, a model id, start or count two, a password or address
\* four
RequestBodySize(kind) ==
    CASE kind \in {"None", "ReadSysPara", "TempleteNum", "GenImg", "UpImage",
                   "DownImage", "RegModel", "Empty", "Match", "GetImageEx",
                   "Cancel", "HandShake", "CheckSensor", "GetAlgVer", "GetFwVer",
                   "ReadProdInfo", "SoftRst", "GetRandomCode", "ReadInfPage"} -> 0
      [] kind \in {"VfyPwd", "SetPwd", "SetAdder"} -> 4
      [] kind \in {"ReadIndexTable", "Img2Tz", "GenChar", "UpChar", "DownChar"} -> 1
      [] kind = "Search" -> 5
      [] kind \in {"Store", "LoadChar"} -> 3
      [] kind = "AuraLedConfig" -> 4
      [] kind \in {"AutoEnroll", "AutoIdentify"} -> 5

\* The variants whose request body the command table gives
TabledKinds ==
    {"None", "ReadSysPara", "TempleteNum", "GenImg", "UpImage", "DownImage",
     "RegModel", "Empty", "Match", "GetImageEx", "Cancel", "HandShake",
     "CheckSensor", "GetAlgVer", "GetFwVer", "ReadProdInfo", "SoftRst",
     "GetRandomCode", "ReadInfPage", "VfyPwd", "SetPwd", "SetAdder",
     "ReadIndexTable", "Img2Tz", "GenChar", "UpChar", "DownChar", "Search",
     "Store", "LoadChar", "AuraLedConfig", "AutoEnroll", "AutoIdentify"}

\* C31: for every Payload variant, Payload::len() equals the number of bytes
\* the request body of that instruction occupies on the wire (0 without body,
\* 4 for VfyPwd/SetPwd/SetAdder, 1 for a buffer id or index page, 5 for Search,
\* 3 for Store and LoadChar, 4 for AuraLedConfig, 5 for AutoEnroll and
\* AutoIdentify); padding or alignment never enters the result.
C31_LenIsWireBodySize ==
    Built(package) /\ package.contents.payload.kind \in TabledKinds =>
        /\ PayloadLen(package.contents.payload)
              = RequestBodySize(package.contents.payload.kind)
        /\ package.length
              = SizeOfHeader + SizeOfAddress + SizeOfIdentifier + SizeOfLength
                  + SizeOfInstruction
                  + RequestBodySize(package.contents.payload.kind) + SizeOfSum

----------------------------------------------------------------------------
(* auto.rs: an undefined step code against the confirmation code           *)

\* The bytes of a frame up to the end of its typed body
UpToBody == IF ret.op = "wait" THEN FrameLen - SizeOfSum ELSE IdentFrameLen - SizeOfSum

----------------------------------------------------------------------------
(* auto.rs: the configuration bodies on the wire                           *)

\* The byte a flag is written as
Flag(b) == IF b THEN 1 ELSE 0

\* C33: the configuration bodies are written as exactly 5 bytes in declared
\* field order with booleans as 0x00/0x01: AutoEnrollConfig as [location,
\* cover_id, allow_dupes, return_status, require_release] (the default is
\* C8 00 00 01 01), AutoIdentifyConfig as [grade, start_pos, steps_or_end,
\* return_status, err_count] with Infinite as 0x00; the same 5 bytes are added
\* to the checksum.
C33_ConfigBodies ==
    /\ ret.op = "to_wire" /\ ret.res = "Ok" /\ ret.ty = "AutoEnrollConfig" =>
        /\ ret.bytes = <<ret.value.val.location.val, Flag(ret.value.val.cover_id),
                         Flag(ret.value.val.allow_dupes),
                         Flag(ret.value.val.return_status),
                         Flag(ret.value.val.require_release)>>
        /\ tx = ret.bytes
        /\ (ret.value.val = DefaultAutoEnrollConfig => ret.bytes = <<200, 0, 0, 1, 1>>)
        /\ (ret.cksm_in.some =>
                ret.cksm_out.val = (ret.cksm_in.val + SumBytes(ret.bytes)) % U16)
    /\ ret.op = "to_wire" /\ ret.res = "Ok" /\ ret.ty = "AutoIdentifyConfig" =>
        /\ Len(ret.bytes) = 5
        /\ tx = ret.bytes
        /\ ret.bytes[1] = ret.value.val.grade
        /\ ret.bytes[2] = ret.value.val.start_pos
        /\ ret.bytes[3] = ret.value.val.steps_or_end
        /\ ret.bytes[4] = Flag(ret.value.val.return_status)
        /\ (ret.value.val.err_count = Infinite => ret.bytes[5] = 0)
        /\ (ret.value.val.err_count # Infinite
                => ret.bytes[5] = ret.value.val.err_count.times)
        /\ (ret.cksm_in.some =>
                ret.cksm_out.val = (ret.cksm_in.val + SumBytes(ret.bytes)) % U16)

\* The default AutoEnrollConfig was written under a checksum
C33_Witness ==
    /\ ret.op = "to_wire"
    /\ ret.res = "Ok"
    /\ ret.ty = "AutoEnrollConfig"
    /\ ret.value.val = DefaultAutoEnrollConfig
    /\ tx = <<200, 0, 0, 1, 1>>
    /\ ret.cksm_in.some
    /\ ret.cksm_out.val = (ret.cksm_in.val + 202) % U16

----------------------------------------------------------------------------
(* constants.rs AuraCycleCount: the count byte read back                    *)

\* The cycle count a byte stands for: 0 is infinite, 1..255 a number of cycles
AuraCycleCount_of(byte) == IF byte = 0 THEN AuraInfinite ELSE Times(byte)

\* C34: the wire encoding of AuraCycleCount is injective: Infinite encodes as
\* 0x00 and no constructible Times(n) encodes to the same byte, so the count
\* byte written alone or as the last of the 4 bytes of an AuraControlPayload
\* ([ctrl_code, speed, color, count]) always decodes back to the variant the
\* caller chose.
C34_CycleCountInjective ==
    /\ ret.op = "to_wire" /\ ret.res = "Ok" /\ ret.ty = "AuraCycleCount" =>
        /\ Len(ret.bytes) = 1
        /\ (ret.value.val = AuraInfinite => ret.bytes[1] = 0)
        /\ AuraCycleCount_of(ret.bytes[1]) = ret.value.val
    /\ ret.op = "to_wire" /\ ret.res = "Ok" /\ ret.ty = "AuraControlPayload" =>
        /\ Len(ret.bytes) = 4
        /\ AuraCycleCount_of(ret.bytes[4]) = ret.value.val.count

----------------------------------------------------------------------------
(* lib.rs compute_checksum                                                  *)

\* Capacity of the heapless Vec<u8, 256> handed to compute_checksum
Capacity == 256

\* Buffers of 0..MaxShort bytes are tried beside the nearly full and full ones
MaxShort == 16

\* The bytes before index 6 (header and address) are all head, the rest fill
Buffer(n, head, fill) == [i \in 1..n |-> IF i <= 6 THEN head ELSE fill]

Buffers ==
    {Buffer(n, head, fill) :
        n \in 0..MaxShort \cup {Capacity - 1, Capacity},
        head \in {0, 255}, fill \in {0, 1, 7, 255}}

\* lib.rs compute_checksum: &buf[6..buf.len()] panics when the buffer has fewer
\* than 6 bytes; checksum += byte as u16 on a u16 panics on overflow where
\* overflow checks are compiled in and wraps where they are not.
compute_checksum(buf) ==
    IF Len(buf) < 6
    THEN {[res |-> "panic", val |-> 0]}
    ELSE LET sum == SumBytes(SubSeq(buf, 7, Len(buf))) IN
         IF sum < U16 THEN {[res |-> "Ok", val |-> sum]}
         ELSE {[res |-> "panic", val |-> 0], [res |-> "Ok", val |-> sum % U16]}

InitChecksum ==
    /\ package = DefaultPackage
    /\ address = ADDRESS
    /\ rx \in Buffers
    /\ tx = <<>>
    /\ link = "up"
    /\ pc = [at |-> "checksum", k |-> 0]
    /\ ret = [op |-> "none", res |-> "none", val |-> 0]
    /\ progress = 0
    /\ terminal = FALSE
    /\ earlier = {}

\* A caller computes the checksum of the buffer it holds
ComputeChecksum ==
    /\ pc.at = "checksum"
    /\ pc.k = 0
    /\ \E out \in compute_checksum(rx) :
        ret' = [op |-> "compute_checksum", res |-> out.res, val |-> out.val]
    /\ pc' = [pc EXCEPT !.k = 1]
    /\ UNCHANGED <<package, address, rx, tx, link, progress, terminal, earlier>>

NextChecksum == ComputeChecksum

SpecChecksum == InitChecksum /\ [][NextChecksum]_vars

\* C35: compute_checksum is total and exact on every buffer of 0..=256 bytes:
\* it never panics on a short buffer, its 16-bit accumulator never overflows,
\* and it returns the sum of all bytes from index 6 (the package identifier) to
\* the end, skipping the 2 header bytes and the 4 address bytes.
C35_ChecksumTotal ==
    ret.op = "compute_checksum" =>
        /\ ret.res = "Ok"
        /\ ret.val = SumBytes(SubSeq(rx, 7, Len(rx)))

----------------------------------------------------------------------------
(* impls.rs FakeSerial: embedded_io_async::Read over received UART frames   *)

\* Frames that arrive on the subscription in one run
MaxUartFrames == 3

\* frame.data lengths and buf.len() values tried
FrameSizes == 0..3

BufSizes == {1, 2, 4}

Min(a, b) == IF a < b THEN a ELSE b

\* A read that drops a frame received when the output buffer is already full
take_frame_drop(st, data, n) ==
    IF st.used >= n THEN st
    ELSE LET to_take == Min(n - st.used, Len(data)) IN
         [used |-> st.used + to_take,
          out |-> st.out \o SubSeq(data, 1, to_take),
          in_queue |-> st.in_queue \o SubSeq(data, to_take + 1, Len(data))]

\* FakeSerial::read, the block run for a received frame: with no room left the
\* frame goes to in_queue, otherwise the output buffer takes what fits and the
\* remainder goes to in_queue
take_frame(st, data, n) ==
    IF st.used >= n
    THEN [st EXCEPT !.in_queue = @ \o data]
    ELSE LET to_take == Min(n - st.used, Len(data)) IN
         [used |-> st.used + to_take,
          out |-> st.out \o SubSeq(data, 1, to_take),
          in_queue |-> st.in_queue \o SubSeq(data, to_take + 1, Len(data))]

\* FakeSerial::read, the loop over the frames received during the call
RECURSIVE read_loop(_, _, _)
read_loop(st, frames, n) ==
    IF frames = <<>> THEN st
    ELSE read_loop(take_frame(st, Head(frames), n), Tail(frames), n)

\* FakeSerial::read(buf) with buf.len() = n, when j frames are received during
\* the call. A non-empty in_queue is served alone. Otherwise the call waits
\* without bound while nothing was taken, and for 1 ms once something was; EOF
\* ends it with what was taken, or with ConnectionClosed if that is nothing.
FakeSerial_read(in_queue, subs, lk, n, j) ==
    IF in_queue # <<>>
    THEN [res |-> "Ok", bytes |-> Prefix(in_queue, n), in_queue |-> Drop(in_queue, n),
          subs |-> subs]
    ELSE LET st == read_loop([used |-> 0, out |-> <<>>, in_queue |-> <<>>],
                             SubSeq(subs, 1, j), n)
         IN  IF st.used # 0
             THEN [res |-> "Ok", bytes |-> st.out, in_queue |-> st.in_queue,
                   subs |-> Drop(subs, j)]
             ELSE IF j = Len(subs) /\ lk = "closed"
             THEN [res |-> "ConnectionClosed", bytes |-> <<>>,
                   in_queue |-> st.in_queue, subs |-> Drop(subs, j)]
             ELSE [res |-> "Pending", bytes |-> <<>>, in_queue |-> in_queue,
                   subs |-> subs]

\* rx is in_queue, pc.subs the frames the subscription holds; earlier records
\* the bytes that arrived and the bytes the reads returned
InitSerial ==
    /\ package = DefaultPackage
    /\ address = ADDRESS
    /\ rx = <<>>
    /\ tx = <<>>
    /\ link = "up"
    /\ pc = [at |-> "serial", k |-> 0, subs |-> <<>>]
    /\ ret = [op |-> "none", res |-> "none", n |-> 0, frames |-> 0, bytes |-> <<>>,
              held |-> <<>>]
    /\ progress = 0
    /\ terminal = FALSE
    /\ earlier = [arrived |-> <<>>, returned |-> <<>>]

\* The bridge publishes a UART frame; its bytes are numbered in arrival order
FrameArrives(len) ==
    /\ pc.at = "serial"
    /\ link = "up"
    /\ pc.k < MaxUartFrames
    /\ LET base == Len(earlier.arrived)
           data == [i \in 1..len |-> base + i]
       IN  /\ pc' = [pc EXCEPT !.k = @ + 1, !.subs = Append(@, data)]
           /\ earlier' = [earlier EXCEPT !.arrived = @ \o data]
    /\ UNCHANGED <<package, address, rx, tx, link, ret, progress, terminal>>

\* The subscription ends: recv() returns None once the frames are taken
SubscriptionEnds ==
    /\ pc.at = "serial"
    /\ link = "up"
    /\ link' = "closed"
    /\ UNCHANGED <<package, address, rx, tx, pc, ret, progress, terminal, earlier>>

\* A caller reads into a buffer of n bytes
SerialRead(n, j) ==
    /\ pc.at = "serial"
    /\ j <= Len(pc.subs)
    /\ rx # <<>> => j = 0
    /\ LET r == FakeSerial_read(rx, pc.subs, link, n, j) IN
        /\ r.res # "Pending"
        /\ rx' = r.in_queue
        /\ pc' = [pc EXCEPT !.subs = r.subs]
        /\ ret' = [op |-> "read", res |-> r.res, n |-> n, frames |-> j,
                   bytes |-> r.bytes, held |-> rx]
        /\ earlier' = [earlier EXCEPT !.returned = @ \o r.bytes]
    /\ UNCHANGED <<package, address, tx, link, progress, terminal>>

NextSerial ==
    \/ \E len \in FrameSizes : FrameArrives(len)
    \/ SubscriptionEnds
    \/ \E n \in BufSizes, j \in 0..MaxUartFrames : SerialRead(n, j)

SpecSerial == InitSerial /\ [][NextSerial]_vars

\* C36: FakeSerial::read is a lossless FIFO over received UART frames: for any
\* arriving frames and any reads with non-zero buffer sizes, the bytes the
\* reads returned, in order, are a prefix of the frame payloads in arrival
\* order (none lost, duplicated or reordered), each read returns at most
\* buf.len() bytes, and bytes left over from a frame are returned by later
\* reads before any byte of a later frame.
C36_LosslessFifo ==
    /\ earlier.returned \o rx \o Concat(pc.subs) = earlier.arrived
    /\ ret.op = "read" =>
        /\ Len(ret.bytes) <= ret.n
        /\ (ret.held # <<>> => ret.bytes = Prefix(ret.held, ret.n))

\* A read of two bytes took three frames: the second was split and the third
\* went behind its remainder
C36_Witness ==
    /\ ret.op = "read"
    /\ ret.res = "Ok"
    /\ ret.frames = 3
    /\ ret.bytes = <<1, 2>>
    /\ rx = <<3, 4>>
    /\ earlier.arrived = <<1, 2, 3, 4>>

----------------------------------------------------------------------------
(* The opcode and step tables of constants.rs against those of lib.rs       *)

\* lib.rs Paramater1 (never used): the step codes of the older table
Paramater1 ==
    [CollectFirst |-> 1, FeatureFirst |-> 2, CollectSecond |-> 3,
     FeatureSecond |-> 4, CollectThird |-> 5, FeatureThird |-> 6,
     CollectFourth |-> 7, FeatureFourth |-> 8, CollectFifth |-> 9,
     FeatureFifth |-> 16, CollectSixth |-> 17, FeatureSixth |-> 18,
     FingerCheck |-> 13, MergeFeatures |-> 14, StoreTemplates |-> 15]

\* The Paramater1 variant documented as the same step as an AutoEnrollStep
Paramater1Of ==
    [CollectImage1 |-> "CollectFirst", GenerateFeature1 |-> "FeatureFirst",
     CollectImage2 |-> "CollectSecond", GenerateFeature2 |-> "FeatureSecond",
     CollectImage3 |-> "CollectThird", GenerateFeature3 |-> "FeatureThird",
     CollectImage4 |-> "CollectFourth", GenerateFeature4 |-> "FeatureFourth",
     CollectImage5 |-> "CollectFifth", GenerateFeature5 |-> "FeatureFifth",
     CollectImage6 |-> "CollectSixth", GenerateFeature6 |-> "FeatureSixth",
     Repeatfingerprint |-> "FingerCheck", MergeFeature |-> "MergeFeatures",
     StorageTemplate |-> "StoreTemplates"]

\* The Instruction variant of lib.rs for the same command as a Commands variant
InstructionOf ==
    [GetImage |-> "GenImg", GenChar |-> "GenChar", RegModel |-> "RegModel",
     UpChar |-> "UpChar", UpImage |-> "UpImage", GetRandomCode |-> "GetRandomCode",
     ReadSystemParameter |-> "ReadSysPara",
     AutomaticRegistrationTemplate |-> "AutoEnroll",
     AutomaticFingerprintVerification |-> "AutoIdentify",
     AuraControl |-> "AuraLedConfig"]

\* The fifteen steps in the order the enum declares them
StepOrder ==
    <<"CollectImage1", "GenerateFeature1", "CollectImage2", "GenerateFeature2",
      "CollectImage3", "GenerateFeature3", "CollectImage4", "GenerateFeature4",
      "CollectImage5", "GenerateFeature5", "CollectImage6", "GenerateFeature6",
      "Repeatfingerprint", "MergeFeature", "StorageTemplate">>

\* C37: the two opcode tables agree: every variant of Commands has the byte of
\* the corresponding Instruction variant (GetImage/GenImg 0x01, GenChar 0x02,
\* RegModel 0x05, UpChar 0x08, UpImage 0x0A, ReadSystemParameter/ReadSysPara
\* 0x0F, GetRandomCode 0x14, AutomaticRegistrationTemplate/AutoEnroll 0x31,
\* AuraControl/AuraLedConfig 0x35), and the fifteen AutoEnrollStep codes are the
\* consecutive bytes 0x01..=0x0F in step order, the same codes as the legacy
\* Paramater1 table.
C37_TablesAgree ==
    /\ ret.op = "into" /\ ret.enum = "Commands" =>
        ret.value = Instruction[InstructionOf[ret.variant]]
    /\ ret.op = "into" /\ ret.enum = "AutoEnrollStep" =>
        /\ ret.value \in 1..15
        /\ StepOrder[ret.value] = ret.variant
        /\ ret.value = Paramater1[Paramater1Of[ret.variant]]

====
